---- MODULE Spec2Model ----
(***************************************************************************)
(* Model of the knowledge-graph core of jayson-clark/hackohio:             *)
(*   backend/app/services/graph_builder.py  (GraphBuilder)                 *)
(*   backend/app/services/graph_agent.py    (GraphConversationalAgent)     *)
(*   backend/app/main.py                    (the shared graph_builder and  *)
(*                                           the /api/chat handler)       *)
(*                                                                         *)
(* A graph (networkx.Graph) is a record                                    *)
(*   nodes : sequence of [id, entity_type, count] in insertion order       *)
(*   edges : sequence of [source, target, weight, evidence,                *)
(*           relationship_type] in insertion order, one per unordered pair *)
(* An entity dict is a sequence of [key, original_name, type, count] with  *)
(* distinct keys (a Python dict keeps insertion order).                    *)
(***************************************************************************)
EXTENDS Integers, Sequences, FiniteSets, TLC

VARIABLES inA, inB, graph, result, call, chain, pc, readGraph, reply

vars == <<inA, inB, graph, result, call, chain, pc, readGraph, reply>>

-----------------------------------------------------------------------------
(* Bounds of the input universes *)

MaxRels == 2

MaxChain == 1

(* Program constants *)

EvidenceCap == 5

Names == {"a", "b", "c"}

\* Python's order on the strings used as node ids (sorted([source, target]))
NameRank(n) == CASE n = "a" -> 1 [] n = "b" -> 2 [] OTHER -> 3

Requests == {"r1", "r2"}

-----------------------------------------------------------------------------
(* Sequence helpers *)

Range(s) == {s[i] : i \in DOMAIN s}

SeqsUpTo(S, n) == UNION {[1..k -> S] : k \in 0..n}

Take(s, n) == IF Len(s) <= n THEN s ELSE SubSeq(s, 1, n)

\* list(dict.fromkeys(s)): first occurrences, in order
RECURSIVE DedupeFrom(_, _, _)
DedupeFrom(s, i, acc) ==
    IF i > Len(s) THEN acc
    ELSE DedupeFrom(s, i + 1, IF s[i] \in Range(acc) THEN acc ELSE Append(acc, s[i]))

Dedupe(s) == DedupeFrom(s, 1, <<>>)

RECURSIVE SumSeq(_)
SumSeq(s) == IF s = <<>> THEN 0 ELSE Head(s) + SumSeq(Tail(s))

RECURSIVE SelectIdx(_, _, _)
\* the subsequence of s at the indices of I, in order
SelectIdx(s, I, i) ==
    IF i > Len(s) THEN <<>>
    ELSE IF i \in I THEN <<s[i]>> \o SelectIdx(s, I, i + 1)
         ELSE SelectIdx(s, I, i + 1)

-----------------------------------------------------------------------------
(* networkx.Graph primitives used by GraphBuilder *)

EmptyGraph == [nodes |-> <<>>, edges |-> <<>>]

NodeSet(g) == {g.nodes[i].id : i \in DOMAIN g.nodes}

has_node(g, n) == n \in NodeSet(g)

Pair(e) == {e.source, e.target}

EdgePairs(g) == {Pair(g.edges[i]) : i \in DOMAIN g.edges}

\* mutant: the pair is never found, so add_edge keeps parallel edges
has_edge_multi(g, u, v) == FALSE

has_edge(g, u, v) == {u, v} \in EdgePairs(g)

EdgeIdx(g, u, v) == CHOOSE i \in DOMAIN g.edges : Pair(g.edges[i]) = {u, v}

EdgeData(g, u, v) == g.edges[EdgeIdx(g, u, v)]

\* mutant: the graph is not cleared
Clear_keep(g) == g

\* Graph.clear()
Clear(g) == EmptyGraph

\* Graph.add_node(id, entity_type=..., count=...): a known node keeps its place
\* and gets the new attributes
add_node(g, n, t, c) ==
    IF has_node(g, n)
    THEN [g EXCEPT !.nodes = [i \in DOMAIN g.nodes |->
                                IF g.nodes[i].id = n
                                THEN [id |-> n, entity_type |-> t, count |-> c]
                                ELSE g.nodes[i]]]
    ELSE [g EXCEPT !.nodes = Append(@, [id |-> n, entity_type |-> t, count |-> c])]

\* Graph.add_edge(u, v, weight=..., evidence=..., relationship_type=...): missing
\* endpoints are created without attributes' values of an entity (modelled as
\* type UNKNOWN, count 0, what _build_nodes reports for them); a known pair
\* keeps its place and gets the new attributes
add_edge(g, u, v, w, ev, rt) ==
    LET g1 == IF has_node(g, u) THEN g ELSE add_node(g, u, "UNKNOWN", 0)
        g2 == IF has_node(g1, v) THEN g1 ELSE add_node(g1, v, "UNKNOWN", 0)
        e  == [source |-> u, target |-> v, weight |-> w, evidence |-> ev,
               relationship_type |-> rt]
    IN  IF has_edge(g2, u, v)
        THEN [g2 EXCEPT !.edges = [i \in DOMAIN g2.edges |->
                 IF Pair(g2.edges[i]) = {u, v}
                 THEN [g2.edges[i] EXCEPT !.weight = w, !.evidence = ev,
                                          !.relationship_type = rt]
                 ELSE g2.edges[i]]]
        ELSE [g2 EXCEPT !.edges = Append(@, e)]

\* Graph.degree(n): incident edges, a self-loop counted twice
degree(g, n) ==
    LET inc(e) == (IF e.source = n THEN 1 ELSE 0) + (IF e.target = n THEN 1 ELSE 0)
    IN  SumSeq([i \in DOMAIN g.edges |-> inc(g.edges[i])])

NodeIdx(g, n) == CHOOSE i \in DOMAIN g.nodes : g.nodes[i].id = n

\* Graph.edges(): for each node in insertion order, its incident edges (in the
\* order they were added) whose other endpoint is not an earlier node,
\* reported as (node, other endpoint)
RECURSIVE EdgesViewFrom(_, _)
EdgesViewFrom(g, i) ==
    IF i > Len(g.nodes) THEN <<>>
    ELSE LET n    == g.nodes[i].id
             seen == {g.nodes[j].id : j \in 1..(i - 1)}
             other(e) == IF e.source = n THEN e.target ELSE e.source
             I    == {k \in DOMAIN g.edges :
                        /\ n \in Pair(g.edges[k])
                        /\ other(g.edges[k]) \notin seen}
             mine == SelectIdx(g.edges, I, 1)
         IN  [k \in DOMAIN mine |-> [mine[k] EXCEPT !.source = n,
                                                    !.target = other(mine[k])]]
             \o EdgesViewFrom(g, i + 1)

EdgesView(g) == EdgesViewFrom(g, 1)

-----------------------------------------------------------------------------
(* GraphBuilder *)

\* mutant: only the source is looked up
BothNodesExist_source(g, rel) == has_node(g, rel.source)

\* the guard of build_graph's edge loop
BothNodesExist(g, rel) == has_node(g, rel.source) /\ has_node(g, rel.target)

RECURSIVE AddNodes(_, _, _)
AddNodes(g, entities, i) ==
    IF i > Len(entities) THEN g
    ELSE AddNodes(add_node(g, entities[i].original_name, entities[i].type,
                           entities[i].count),
                  entities, i + 1)

RECURSIVE AddEdges(_, _, _)
AddEdges(g, relationships, i) ==
    IF i > Len(relationships) THEN g
    ELSE LET rel == relationships[i]
         IN  AddEdges(IF BothNodesExist(g, rel)
                      THEN add_edge(g, rel.source, rel.target, rel.weight,
                                    rel.evidence, rel.relationship_type)
                      ELSE g,
                      relationships, i + 1)

_build_nodes(g) ==
    [i \in DOMAIN g.nodes |->
        [id |-> g.nodes[i].id, group |-> g.nodes[i].entity_type,
         value |-> degree(g, g.nodes[i].id), count |-> g.nodes[i].count,
         degree |-> degree(g, g.nodes[i].id)]]

_build_edges(g) ==
    LET ev == EdgesView(g)
    IN  [i \in DOMAIN ev |->
            [source |-> ev[i].source, target |-> ev[i].target,
             value |-> ev[i].weight,
             title |-> IF ev[i].evidence # <<>> THEN Head(ev[i].evidence)
                       ELSE "co-occurs",
             all_evidence |-> ev[i].evidence,
             relationship_type |-> ev[i].relationship_type]]

\* an exact quotient n / d
Frac(n, d) == [num |-> n, den |-> d]

\* mutant: the density of a directed graph, m / (n (n - 1))
_calculate_density_directed(g) ==
    LET n == Len(g.nodes)
        m == Len(g.edges)
    IN  IF m = 0 \/ n <= 1 THEN Frac(0, 1) ELSE Frac(m, n * (n - 1))

\* nx.density(G) if len(self.graph.nodes()) > 0 else 0.0
_calculate_density(g) ==
    LET n == Len(g.nodes)
        m == Len(g.edges)
    IN  IF m = 0 \/ n <= 1 THEN Frac(0, 1) ELSE Frac(2 * m, n * (n - 1))

\* the GraphData a call returns for the graph g
GraphDataOf(g) ==
    [nodes |-> _build_nodes(g), edges |-> _build_edges(g),
     total_nodes |-> Len(_build_nodes(g)), total_edges |-> Len(_build_edges(g)),
     density |-> _calculate_density(g)]

\* build_graph run on a builder whose graph is g: the graph it leaves
build_graph(g, entities, relationships) ==
    AddEdges(AddNodes(Clear(g), entities, 1), relationships, 1)


-----------------------------------------------------------------------------
(* The records main.py derives from a returned GraphData before a merge *)

EntitiesOf(gd) ==
    [i \in DOMAIN gd.nodes |->
        [key |-> gd.nodes[i].id, original_name |-> gd.nodes[i].id,
         type |-> gd.nodes[i].group, count |-> gd.nodes[i].count]]

RelationshipsOf(gd) ==
    [i \in DOMAIN gd.edges |->
        [source |-> gd.edges[i].source, target |-> gd.edges[i].target,
         weight |-> gd.edges[i].value, evidence |-> gd.edges[i].all_evidence,
         relationship_type |-> gd.edges[i].relationship_type]]

RecordsOf(gd) == [entities |-> EntitiesOf(gd), relationships |-> RelationshipsOf(gd)]

-----------------------------------------------------------------------------
(* GraphBuilder.merge_graphs *)

Max(x, y) == IF x >= y THEN x ELSE y

KeySet(entities) == {entities[i].key : i \in DOMAIN entities}

\* merged_entities: base, then each new entity; a known key keeps the existing
\* record with count = max of the two
RECURSIVE MergeEntities(_, _, _)
MergeEntities(merged, new_entities, i) ==
    IF i > Len(new_entities) THEN merged
    ELSE LET entity == new_entities[i]
         IN  MergeEntities(
                IF entity.key \in KeySet(merged)
                THEN [j \in DOMAIN merged |->
                        IF merged[j].key = entity.key
                        THEN [merged[j] EXCEPT !.count = Max(@, entity.count)]
                        ELSE merged[j]]
                ELSE Append(merged, entity),
                new_entities, i + 1)

\* key = tuple(sorted([rel["source"], rel["target"]]))
RelKey(rel) ==
    IF NameRank(rel.source) <= NameRank(rel.target)
    THEN <<rel.source, rel.target>> ELSE <<rel.target, rel.source>>

MapKeys(rel_map) == {rel_map[i].key : i \in DOMAIN rel_map}

\* mutant: the stored record keeps at most 3 evidence sentences
MapEntry_cut(rel) ==
    [key |-> RelKey(rel), source |-> rel.source, target |-> rel.target,
     weight |-> rel.weight, evidence |-> Take(rel.evidence, 3),
     relationship_type |-> rel.relationship_type]

MapEntry(rel) ==
    [key |-> RelKey(rel), source |-> rel.source, target |-> rel.target,
     weight |-> rel.weight, evidence |-> rel.evidence,
     relationship_type |-> rel.relationship_type]

\* first loop: rel_map[key] = {...} for every base relationship (a repeated key
\* is overwritten in place)
RECURSIVE BaseLoop(_, _, _)
BaseLoop(rel_map, base_relationships, i) ==
    IF i > Len(base_relationships) THEN rel_map
    ELSE LET rel == base_relationships[i]
         IN  BaseLoop(
                IF RelKey(rel) \in MapKeys(rel_map)
                THEN [j \in DOMAIN rel_map |->
                        IF rel_map[j].key = RelKey(rel) THEN MapEntry(rel)
                        ELSE rel_map[j]]
                ELSE Append(rel_map, MapEntry(rel)),
                base_relationships, i + 1)

\* mutant: the incoming weight replaces the existing one
Aggregate_replace(existing, rel) ==
    [existing EXCEPT
        !.weight = rel.weight,
        !.evidence = Take(Dedupe(@ \o rel.evidence), EvidenceCap)]

\* mutant: the incoming relationship type wins
Aggregate_newtype(existing, rel) ==
    [existing EXCEPT
        !.weight = @ + rel.weight,
        !.evidence = Take(Dedupe(@ \o rel.evidence), EvidenceCap),
        !.relationship_type = rel.relationship_type]

\* mutant: the incoming evidence comes first
Aggregate_neworder(existing, rel) ==
    [existing EXCEPT
        !.weight = @ + rel.weight,
        !.evidence = Take(Dedupe(rel.evidence \o @), EvidenceCap)]

\* mutant: evidence is concatenated without removing repeats
Aggregate_nodedupe(existing, rel) ==
    [existing EXCEPT
        !.weight = @ + rel.weight,
        !.evidence = Take(@ \o rel.evidence, EvidenceCap)]

\* the collision branch of the second loop
Aggregate(existing, rel) ==
    [existing EXCEPT
        !.weight = @ + rel.weight,
        !.evidence = Take(Dedupe(@ \o rel.evidence), EvidenceCap)]

RECURSIVE NewLoop(_, _, _)
NewLoop(rel_map, new_relationships, i) ==
    IF i > Len(new_relationships) THEN rel_map
    ELSE LET rel == new_relationships[i]
         IN  NewLoop(
                IF RelKey(rel) \in MapKeys(rel_map)
                THEN [j \in DOMAIN rel_map |->
                        IF rel_map[j].key = RelKey(rel)
                        THEN Aggregate(rel_map[j], rel)
                        ELSE rel_map[j]]
                ELSE Append(rel_map, MapEntry(rel)),
                new_relationships, i + 1)

\* merged_relationships = list(rel_map.values())
MergedRelationships(base_relationships, new_relationships) ==
    LET rel_map == NewLoop(BaseLoop(<<>>, base_relationships, 1),
                           new_relationships, 1)
    IN  [j \in DOMAIN rel_map |->
            [source |-> rel_map[j].source, target |-> rel_map[j].target,
             weight |-> rel_map[j].weight, evidence |-> rel_map[j].evidence,
             relationship_type |-> rel_map[j].relationship_type]]

\* merge_graphs run on a builder whose graph is g: the graph it leaves
merge_graphs(g, base_entities, base_relationships, new_entities, new_relationships) ==
    build_graph(g, MergeEntities(base_entities, new_entities, 1),
                MergedRelationships(base_relationships, new_relationships))


-----------------------------------------------------------------------------
(* Input universes.  One run holds two payloads, inA and inB, as two documents
   of a project or two requests' graphs. *)

TypeOfName(n) ==
    CASE n = "a" -> "GENE_OR_GENE_PRODUCT" [] n = "b" -> "CHEMICAL" [] OTHER -> "DISEASE"

Ent(k, n, c) == [key |-> k, original_name |-> n, type |-> TypeOfName(n), count |-> c]

Rel(s, t, w, ev, rt) ==
    [source |-> s, target |-> t, weight |-> w, evidence |-> ev, relationship_type |-> rt]

EmptyPayload == [entities |-> <<>>, relationships |-> <<>>]

AtMostOne(S) == {<<>>} \cup {<<x>> : x \in S}

\* entity dicts: none, some or all of the names declared; one dict declares
\* node "a" a second time under another key (normalized key /= original name)
StructEntityDicts ==
    { <<>>,
      <<Ent("a", "a", 1)>>,
      <<Ent("a", "a", 1), Ent("b", "b", 2)>>,
      <<Ent("b", "b", 1), Ent("c", "c", 1)>>,
      <<Ent("c", "c", 1), Ent("b", "b", 1), Ent("a", "a", 3)>>,
      <<Ent("a", "a", 1), Ent("b", "b", 1), Ent("c", "a", 2)>> }

\* relationship records over ordered pairs of names (a self pair included),
\* each with its own weight, so that the record an edge comes from shows
StructRels ==
    { Rel("a", "b", 1, <<"s1">>, "CO_OCCURRENCE"),
      Rel("b", "a", 2, <<"s2">>, "TREATS"),
      Rel("a", "a", 3, <<"s1">>, "CO_OCCURRENCE"),
      Rel("c", "b", 4, <<"s2">>, "INHIBITS"),
      Rel("a", "c", 5, <<>>, "CO_OCCURRENCE") }

StructPayloads ==
    [entities : StructEntityDicts, relationships : SeqsUpTo(StructRels, MaxRels)]

SmallPayloads ==
    [entities : { <<>>, <<Ent("b", "b", 2), Ent("c", "c", 1)>> },
     relationships : AtMostOne({ Rel("b", "c", 1, <<"s3">>, "CO_OCCURRENCE") })]

\* records that differ in weight, evidence and type on few pairs: collisions in
\* both orientations, evidence with repeats, evidence that overflows the cap
AttrRels ==
    { Rel("a", "b", 1, <<"s1", "s2", "s3">>, "CO_OCCURRENCE"),
      Rel("b", "a", 2, <<"s3", "s4", "s5", "s6">>, "TREATS"),
      Rel("a", "b", 2, <<"s1", "s1", "s7">>, "INHIBITS"),
      Rel("c", "b", 3, <<>>, "TREATS"),
      Rel("a", "c", 1, <<"s7", "s1", "s2", "s3", "s4", "s5">>, "CO_OCCURRENCE") }

AttrPayloadsA ==
    [entities : { <<Ent("a", "a", 1), Ent("b", "b", 2)>>,
                  <<Ent("a", "a", 2), Ent("b", "b", 1), Ent("c", "c", 1)>> },
     relationships : SeqsUpTo(AttrRels, MaxRels)]

AttrPayloadsB ==
    [entities : { <<Ent("b", "b", 3), Ent("c", "c", 2), Ent("a", "a", 1)>> },
     relationships : AtMostOne(AttrRels)]

-----------------------------------------------------------------------------
(* State machine of the shared GraphBuilder *)

\* no query has been answered since the graph was last built
NoReply == [op |-> "none"]

NoCall == [op |-> "init", base |-> EmptyPayload, new |-> EmptyPayload,
           before |-> EmptyGraph]

InitBuilder ==
    /\ graph = EmptyGraph
    /\ result = GraphDataOf(EmptyGraph)
    /\ call = NoCall
    /\ chain = 0
    /\ pc = [r \in Requests |-> "idle"]
    /\ readGraph = [r \in Requests |-> EmptyGraph]
    /\ reply = NoReply

Init ==
    /\ inA \in StructPayloads
    /\ inB \in SmallPayloads
    /\ InitBuilder

InitMerge ==
    /\ inA \in AttrPayloadsA
    /\ inB \in AttrPayloadsB
    /\ InitBuilder

\* graph_builder.build_graph(p.entities, p.relationships)
Build(p) ==
    /\ graph' = build_graph(graph, p.entities, p.relationships)
    /\ result' = GraphDataOf(graph')
    /\ call' = [op |-> "build", base |-> EmptyPayload, new |-> p, before |-> graph]
    /\ chain' = 0
    /\ reply' = NoReply
    /\ UNCHANGED <<inA, inB, pc, readGraph>>

\* graph_builder.merge_graphs(base.entities, base.relationships,
\*                            new.entities, new.relationships)
Merge(op, base, new, n) ==
    /\ graph' = merge_graphs(graph, base.entities, base.relationships,
                             new.entities, new.relationships)
    /\ result' = GraphDataOf(graph')
    /\ call' = [op |-> op, base |-> base, new |-> new, before |-> graph]
    /\ chain' = n
    /\ reply' = NoReply
    /\ UNCHANGED <<inA, inB, pc, readGraph>>

BuildGraph == \E p \in {inA, inB} : Build(p)

\* merge of two raw inputs
MergeInputs == Merge("merge", inA, inB, 0)

\* merge(empty, A)
MergeFromEmpty == Merge("merge", EmptyPayload, inA, 0)

\* main.py: the last returned GraphData is turned back into records and merged
\* with the next input (nothing, an input, or the same records again)
MergeResult ==
    /\ chain < MaxChain
    /\ \E new \in {EmptyPayload, inB, RecordsOf(result)} :
          Merge("merge_result", RecordsOf(result), new, chain + 1)

Next == BuildGraph \/ MergeInputs \/ MergeFromEmpty \/ MergeResult

Spec == Init /\ [][Next]_vars

SpecMerge == InitMerge /\ [][Next]_vars


-----------------------------------------------------------------------------
(* Vocabulary of the properties *)

NamesOf(entities) == {entities[i].original_name : i \in DOMAIN entities}

\* the names a call declares: those of its entity dicts
DeclaredNames(c) == NamesOf(c.base.entities) \cup NamesOf(c.new.entities)

\* every relationship of the payload has both endpoints among its own entities
AllDeclared(p) ==
    \A i \in DOMAIN p.relationships :
        /\ p.relationships[i].source \in NamesOf(p.entities)
        /\ p.relationships[i].target \in NamesOf(p.entities)

\* no two records of the list name the same unordered pair
NoRepeatedPair(rels) ==
    \A i, j \in DOMAIN rels : Pair(rels[i]) = Pair(rels[j]) => i = j

WithPair(rels, pr) == {i \in DOMAIN rels : Pair(rels[i]) = pr}

NodeRecords(g) == Range(g.nodes)

EdgeAttrs(e) ==
    [pair |-> Pair(e), weight |-> e.weight, evidence |-> e.evidence,
     relationship_type |-> e.relationship_type]

EdgeRecords(g) == {EdgeAttrs(g.edges[i]) : i \in DOMAIN g.edges}

\* same nodes (type and count), same edges, same attributes on every edge
SameGraph(g, h) ==
    /\ NodeRecords(g) = NodeRecords(h)
    /\ EdgeRecords(g) = EdgeRecords(h)
    /\ Len(g.nodes) = Len(h.nodes)
    /\ Len(g.edges) = Len(h.edges)

-----------------------------------------------------------------------------
(* C1: after any sequence of build and merge calls every edge of the graph has
   both endpoints among the graph's nodes, and no edge has an endpoint that
   the call did not declare as an entity (such a record is dropped). *)
C1_EdgeEndpointsDeclared ==
    \A i \in DOMAIN graph.edges :
        /\ Pair(graph.edges[i]) \subseteq NodeSet(graph)
        /\ Pair(graph.edges[i]) \subseteq DeclaredNames(call)

\* a call that kept an edge and dropped a record with an undeclared endpoint
C1_Witness ==
    /\ call.op \in {"build", "merge"}
    /\ graph.edges # <<>>
    /\ \E i \in DOMAIN call.new.relationships :
          ~ (Pair(call.new.relationships[i]) \subseteq DeclaredNames(call))

(* C2 as stated: the number of edges of the built graph is at most the number
   of relationship records and equals it iff every record's endpoints were
   declared. *)
C2_EdgeCountIffDeclared ==
    call.op = "build" =>
        /\ Len(graph.edges) <= Len(call.new.relationships)
        /\ (Len(graph.edges) = Len(call.new.relationships)) <=> AllDeclared(call.new)

(* C2 amended: the number of edges is at most the number of records and equals
   it iff every record's endpoints were declared and no two records name the
   same unordered pair. *)
C2_EdgeCount ==
    call.op = "build" =>
        /\ Len(graph.edges) <= Len(call.new.relationships)
        /\ result.total_edges = Len(graph.edges)
        /\ (Len(graph.edges) = Len(call.new.relationships))
              <=> (AllDeclared(call.new) /\ NoRepeatedPair(call.new.relationships))

\* a build whose records are all declared but repeat a pair: fewer edges
C2_Witness ==
    /\ call.op = "build"
    /\ AllDeclared(call.new)
    /\ ~ NoRepeatedPair(call.new.relationships)
    /\ Len(graph.edges) < Len(call.new.relationships)


-----------------------------------------------------------------------------
\* the entity dict the call hands to build_graph
BuiltEntities(c) ==
    IF c.op = "build" THEN c.new.entities
    ELSE MergeEntities(c.base.entities, c.new.entities, 1)

InputRels(c) == Range(c.base.relationships) \cup Range(c.new.relationships)

(* C4: a call leaves the graph holding exactly the nodes its entities name and
   only edges over pairs its relationship records name, whatever the graph
   held before; after a build every edge carries the attributes of one of
   the build's records. *)
C4_BuildReplaces ==
    call.op # "init" =>
        /\ NodeSet(graph) = NamesOf(BuiltEntities(call))
        /\ \A i \in DOMAIN graph.edges :
              \E rel \in InputRels(call) : Pair(rel) = Pair(graph.edges[i])
        /\ call.op = "build" =>
              \A i \in DOMAIN graph.edges :
                  \E rel \in InputRels(call) : EdgeAttrs(rel) = EdgeAttrs(graph.edges[i])

\* a build over a graph that held a node and an edge the build does not name
C4_Witness ==
    /\ call.op = "build"
    /\ graph.nodes # <<>>
    /\ ~ (NodeSet(call.before) \subseteq NamesOf(call.new.entities))
    /\ \E i \in DOMAIN call.before.edges :
          \A rel \in InputRels(call) : Pair(rel) # Pair(call.before.edges[i])

(* C5 as stated: no edge of a graph produced by build or merge joins a node to
   itself. *)
C5_NoSelfLoop ==
    \A i \in DOMAIN graph.edges : graph.edges[i].source # graph.edges[i].target


-----------------------------------------------------------------------------
(* Merge properties, checked under SpecMerge *)

\* the call merged the records of the graph it found with nothing
IsMergeWithEmpty ==
    /\ call.op = "merge_result"
    /\ call.base = RecordsOf(GraphDataOf(call.before))
    /\ call.new = EmptyPayload

(* C6: merging the entities and relationships of a built graph G with no new
   entities and no new relationships yields G: same nodes with type and
   count, same edges, same weight, evidence and type on every edge. *)
C6_MergeIdentity == IsMergeWithEmpty => SameGraph(graph, call.before)

\* the identity merge of a graph with two edges, one of them with 4 sentences
C6_Witness ==
    /\ IsMergeWithEmpty
    /\ Len(graph.edges) >= 2
    /\ \E i \in DOMAIN graph.edges : Len(graph.edges[i].evidence) >= 4

\* merge(merge(empty, A), B) and merge(merge(empty, B), A) as graphs
MergeChain(p, q) ==
    LET g1 == merge_graphs(EmptyGraph, <<>>, <<>>, p.entities, p.relationships)
        r1 == RecordsOf(GraphDataOf(g1))
    IN  merge_graphs(g1, r1.entities, r1.relationships, q.entities, q.relationships)

\* the state holds merge(merge(empty, inA), inB)
IsChainAB ==
    /\ call.op = "merge_result"
    /\ call.new = inB
    /\ call.before = merge_graphs(EmptyGraph, <<>>, <<>>, inA.entities, inA.relationships)
    /\ call.base = RecordsOf(GraphDataOf(call.before))

WeightsAgree(g, h) ==
    \A pr \in EdgePairs(g) \cap EdgePairs(h) :
        \A i \in DOMAIN g.edges, j \in DOMAIN h.edges :
            (Pair(g.edges[i]) = pr /\ Pair(h.edges[j]) = pr)
                => g.edges[i].weight = h.edges[j].weight

(* C7 as stated: for any two inputs A and B, an edge of both
   merge(merge(empty,A),B) and merge(merge(empty,B),A) has the same weight in
   both. *)
C7_MergeCommutes == IsChainAB => WeightsAgree(graph, MergeChain(inB, inA))

(* C7 amended: the same, for inputs A and B in each of which every
   relationship has both endpoints declared among that input's entities. *)
C7_MergeCommutesDeclared ==
    (IsChainAB /\ AllDeclared(inA) /\ AllDeclared(inB))
        => WeightsAgree(graph, MergeChain(inB, inA))

\* both orders hold an edge that A and B both name, with different weights in
\* A and B
C7_Witness ==
    /\ IsChainAB /\ AllDeclared(inA) /\ AllDeclared(inB)
    /\ \E i \in DOMAIN inA.relationships, j \in DOMAIN inB.relationships :
          /\ Pair(inA.relationships[i]) = Pair(inB.relationships[j])
          /\ inA.relationships[i].weight # inB.relationships[j].weight
          /\ Pair(inA.relationships[i]) \in
                EdgePairs(graph) \cap EdgePairs(MergeChain(inB, inA))


\* the call merged the records of the graph it found with the same records
IsMergeWithSelf ==
    /\ call.op = "merge_result"
    /\ call.base = RecordsOf(GraphDataOf(call.before))
    /\ call.new = call.base

(* C8 as stated: merging a graph's entities and relationships with an
   identical copy of themselves yields the same graph, weights and evidence
   included. *)
C8_MergeIdempotent == IsMergeWithSelf => SameGraph(graph, call.before)

\* the edge records of g with weights doubled and evidence without repeats,
\* cut to the cap
DoubledEdges(g) ==
    {[pair |-> Pair(g.edges[i]), weight |-> 2 * g.edges[i].weight,
      evidence |-> Take(Dedupe(g.edges[i].evidence), EvidenceCap),
      relationship_type |-> g.edges[i].relationship_type] : i \in DOMAIN g.edges}

(* C8 amended: merging a graph's records with an identical copy yields the
   same nodes (type and count), the same edges and relationship types, every
   weight doubled, and on every edge the original evidence with later
   repeats removed, cut to 5 sentences. *)
C8_MergeSelfDoubles ==
    IsMergeWithSelf =>
        /\ NodeRecords(graph) = NodeRecords(call.before)
        /\ Len(graph.nodes) = Len(call.before.nodes)
        /\ Len(graph.edges) = Len(call.before.edges)
        /\ EdgeRecords(graph) = DoubledEdges(call.before)

\* a self-merge of a graph with an edge whose evidence repeats a sentence and
\* an edge with more than 5 sentences
C8_Witness ==
    /\ IsMergeWithSelf
    /\ \E i \in DOMAIN call.before.edges :
          Dedupe(call.before.edges[i].evidence) # call.before.edges[i].evidence
    /\ \E i \in DOMAIN call.before.edges : Len(call.before.edges[i].evidence) > EvidenceCap

\* the pairs named by a base record and by a new record of the call, whose
\* edge is in the graph
Collisions ==
    {pr \in EdgePairs(graph) :
        /\ WithPair(call.base.relationships, pr) # {}
        /\ WithPair(call.new.relationships, pr) # {}}

LastOf(I) == CHOOSE i \in I : \A j \in I : j <= i

IsMergeCall == call.op \in {"merge", "merge_result"}

\* the edge of g over the unordered pair pr
EdgeOfPair(g, pr) == g.edges[CHOOSE i \in DOMAIN g.edges : Pair(g.edges[i]) = pr]

(* C9 as stated: on a collision of a base and a new relationship the merged
   edge has the relationship type of the new record. *)
C9_IncomingTypeWins ==
    IsMergeCall =>
        \A pr \in Collisions :
            \A j \in WithPair(call.new.relationships, pr) :
                EdgeOfPair(graph, pr).relationship_type
                    = call.new.relationships[j].relationship_type

(* C9 amended: on a collision of a base and a new relationship the merged
   edge keeps the relationship type of the existing (base) record, the last
   base record of that pair, not the type of the new record. *)
C9_ExistingTypeKept ==
    IsMergeCall =>
        \A pr \in Collisions :
            EdgeOfPair(graph, pr).relationship_type
                = call.base.relationships[LastOf(WithPair(call.base.relationships, pr))]
                      .relationship_type

\* a merge of raw inputs with a collision of records of different types
C9_Witness ==
    /\ call.op = "merge"
    /\ \E pr \in Collisions :
          \E i \in WithPair(call.base.relationships, pr),
             j \in WithPair(call.new.relationships, pr) :
                /\ call.base.relationships[i].relationship_type
                      # call.new.relationships[j].relationship_type
                /\ EdgeOfPair(graph, pr).relationship_type
                      = call.base.relationships[i].relationship_type

(* C10: when exactly one base record and one new record name the same
   unordered pair, in either orientation, the merged edge's weight is the sum
   of the two weights and its evidence is the first 5 sentences of
   existing evidence ++ incoming evidence with later repeats removed. *)
C10_CollisionSumsAndDedupes ==
    IsMergeCall =>
        \A pr \in Collisions :
            LET B == WithPair(call.base.relationships, pr)
                N == WithPair(call.new.relationships, pr)
            IN  (Cardinality(B) = 1 /\ Cardinality(N) = 1) =>
                  LET rb == call.base.relationships[LastOf(B)]
                      rn == call.new.relationships[LastOf(N)]
                      e  == EdgeOfPair(graph, pr)
                      cat == rb.evidence \o rn.evidence
                  IN  /\ e.weight = rb.weight + rn.weight
                      /\ Len(e.evidence) <= EvidenceCap
                      /\ \A k \in DOMAIN e.evidence :
                            \* the k-th sentence is the k-th first occurrence
                            \E m \in DOMAIN cat :
                                /\ cat[m] = e.evidence[k]
                                /\ \A m2 \in 1..(m - 1) : cat[m2] # cat[m]
                                /\ Cardinality({cat[m2] : m2 \in 1..(m - 1)}) = k - 1
                      /\ Len(e.evidence) < EvidenceCap
                            => Range(cat) \subseteq Range(e.evidence)

\* a collision in opposite orientations whose joint evidence has a repeat and
\* more than 5 distinct sentences
C10_Witness ==
    /\ call.op = "merge"
    /\ \E pr \in Collisions :
          LET B == WithPair(call.base.relationships, pr)
              N == WithPair(call.new.relationships, pr)
          IN  /\ Cardinality(B) = 1 /\ Cardinality(N) = 1
              /\ LET rb == call.base.relationships[LastOf(B)]
                     rn == call.new.relationships[LastOf(N)]
                 IN  /\ rb.source = rn.target /\ rb.source # rb.target
                     /\ Cardinality(Range(rb.evidence \o rn.evidence)) > EvidenceCap
                     /\ Range(rb.evidence) \cap Range(rn.evidence) # {}


(* C11: every edge of every graph that build or merge leaves carries an
   evidence list without a repeated sentence and with at most 5 sentences,
   whatever evidence the input records carry. *)
C11_EvidenceDedupedCapped ==
    \A i \in DOMAIN graph.edges :
        /\ Dedupe(graph.edges[i].evidence) = graph.edges[i].evidence
        /\ Len(graph.edges[i].evidence) <= EvidenceCap


-----------------------------------------------------------------------------
(* The /api/chat handler on the asyncio event loop: the code between two
   awaits runs as one step.  Request r1 carries inA, request r2 carries inB;
   both use the module-level graph_builder, and the agent of a request holds
   graph_builder.graph itself, not a copy. *)

ChatPayloads ==
    [entities : { <<Ent("a", "a", 1), Ent("b", "b", 1)>>,
                  <<Ent("b", "b", 1), Ent("c", "c", 1)>> },
     relationships : SeqsUpTo({ Rel("a", "b", 1, <<"s1">>, "CO_OCCURRENCE"),
                                Rel("b", "c", 2, <<"s2">>, "TREATS") }, MaxRels)]

PayloadOf(r) == IF r = "r1" THEN inA ELSE inB

InitChat ==
    /\ inA \in ChatPayloads
    /\ inB \in ChatPayloads
    /\ InitBuilder

\* main.py 953-990: the handler rebuilds the shared graph from its payload
ChatBuild(r) ==
    /\ pc[r] = "idle"
    /\ graph' = build_graph(graph, PayloadOf(r).entities, PayloadOf(r).relationships)
    /\ result' = GraphDataOf(graph')
    /\ call' = [op |-> "build", base |-> EmptyPayload, new |-> PayloadOf(r),
                before |-> graph]
    /\ chain' = 0
    /\ UNCHANGED <<inA, inB, reply>>

\* the query of request r runs now, against the agent's graph
RunQuery(r, g) == readGraph' = [readGraph EXCEPT ![r] = g]

\* no RAG context; agent.chat answers by pattern matching (or the LLM is
\* disabled) before any await: the query runs in the step of the build
ChatPattern(r) ==
    /\ ChatBuild(r)
    /\ RunQuery(r, graph')
    /\ pc' = [pc EXCEPT ![r] = "answered"]

\* no RAG context; agent.chat reaches await asyncio.to_thread (graph_agent.py 184)
ChatAskLLM(r) ==
    /\ ChatBuild(r)
    /\ pc' = [pc EXCEPT ![r] = "await_llm"]
    /\ UNCHANGED readGraph

\* RAG context found: await llm_service.chat (main.py 1080)
ChatAskRag(r) ==
    /\ ChatBuild(r)
    /\ pc' = [pc EXCEPT ![r] = "await_rag"]
    /\ UNCHANGED readGraph

\* the RAG answer arrives: no graph query
ChatRagReply(r) ==
    /\ pc[r] = "await_rag"
    /\ pc' = [pc EXCEPT ![r] = "replied"]
    /\ UNCHANGED <<inA, inB, graph, result, call, chain, readGraph, reply>>

\* the RAG call raised: fallback to agent.chat (main.py 1097), answered by
\* pattern matching
ChatRagFallback(r) ==
    /\ pc[r] = "await_rag"
    /\ RunQuery(r, graph)
    /\ pc' = [pc EXCEPT ![r] = "answered"]
    /\ UNCHANGED <<inA, inB, graph, result, call, chain, reply>>

\* the LLM response arrives: the tool it names runs (graph_agent.py 207-219),
\* or _pattern_match_chat after an exception (236)
ChatToolCall(r) ==
    /\ pc[r] = "await_llm"
    /\ RunQuery(r, graph)
    /\ pc' = [pc EXCEPT ![r] = "answered"]
    /\ UNCHANGED <<inA, inB, graph, result, call, chain, reply>>

\* the LLM answers directly, without a tool (graph_agent.py 225-233)
ChatDirect(r) ==
    /\ pc[r] = "await_llm"
    /\ pc' = [pc EXCEPT ![r] = "replied"]
    /\ UNCHANGED <<inA, inB, graph, result, call, chain, readGraph, reply>>

NextChat ==
    \E r \in Requests :
        \/ ChatPattern(r)
        \/ ChatAskLLM(r)
        \/ ChatAskRag(r)
        \/ ChatRagReply(r)
        \/ ChatRagFallback(r)
        \/ ChatToolCall(r)
        \/ ChatDirect(r)

SpecChat == InitChat /\ [][NextChat]_vars

\* the graph of request r's own payload
OwnGraph(r) == build_graph(EmptyGraph, PayloadOf(r).entities, PayloadOf(r).relationships)

(* C3 as stated: each chat request's graph query runs against the graph built
   from that request's own payload. *)
C3_QueryReadsOwnGraph ==
    \A r \in Requests : pc[r] = "answered" => readGraph[r] = OwnGraph(r)


-----------------------------------------------------------------------------
(* Read operations of GraphBuilder: filter_graph and compute_analytics.
   An optional argument is None or Some(value); numbers that Python holds as
   floats are exact fractions [num, den] here. *)

None == <<>>

Some(x) == <<x>>

\* Python truthiness of an optional int: None and 0 are false
TruthyInt(o) == o # None /\ o[1] # 0

\* Python truthiness of an optional list: None and [] are false
TruthyList(o) == o # None /\ o[1] # <<>>

\* s[:n]
PySlice(s, n) == IF n >= 0 THEN Take(s, n) ELSE Take(s, Max(0, Len(s) + n))

\* sorted(items, key=score, reverse=True): stable, so equal scores keep their
\* order in items
RECURSIVE InsertDesc(_, _)
InsertDesc(sorted, x) ==
    IF sorted = <<>> THEN <<x>>
    ELSE IF Head(sorted).score >= x.score
         THEN <<Head(sorted)>> \o InsertDesc(Tail(sorted), x)
         ELSE <<x>> \o sorted

RECURSIVE SortedDescFrom(_, _, _)
SortedDescFrom(items, i, acc) ==
    IF i > Len(items) THEN acc
    ELSE SortedDescFrom(items, i + 1, InsertDesc(acc, items[i]))

SortedDesc(items) == SortedDescFrom(items, 1, <<>>)

\* Graph.remove_nodes_from(R): the nodes of R go, with their incident edges
remove_nodes_from(g, R) ==
    [nodes |-> SelectSeq(g.nodes, LAMBDA n : n.id \notin R),
     edges |-> SelectSeq(g.edges, LAMBDA e : e.source \notin R /\ e.target \notin R)]

\* dict(Graph.degree()) in node order
Degrees(g) ==
    [i \in DOMAIN g.nodes |-> [node |-> g.nodes[i].id, score |-> degree(g, g.nodes[i].id)]]

\* mutant: a node one short of min_degree is kept
DegreePass_lenient(g, min_degree) ==
    remove_nodes_from(g, {n \in NodeSet(g) : degree(g, n) < min_degree - 1})

\* filter_graph, first pass: the degrees are those before any removal
DegreePass(g, min_degree) ==
    remove_nodes_from(g, {n \in NodeSet(g) : degree(g, n) < min_degree})

\* second pass, under "if entity_types:"
TypePass(g, entity_types) ==
    IF TruthyList(entity_types)
    THEN remove_nodes_from(g,
            {g.nodes[i].id : i \in {j \in DOMAIN g.nodes :
                                      g.nodes[j].entity_type \notin Range(entity_types[1])}})
    ELSE g

\* third pass, under "if top_n:"; the degrees are those in the graph the first
\* two passes left
TopNPass(g, top_n) ==
    IF TruthyInt(top_n)
    THEN LET sorted_nodes  == SortedDesc(Degrees(g))
             kept          == PySlice(sorted_nodes, top_n[1])
             nodes_to_keep == {kept[i].node : i \in DOMAIN kept}
         IN  remove_nodes_from(g, NodeSet(g) \ nodes_to_keep)
    ELSE g

\* mutant: self.graph stays the filtered copy
RestoreGraph_skip(temp_graph, current) == current

\* self.graph = temp_graph
RestoreGraph(temp_graph, current) == temp_graph

\* filter_graph on a builder whose graph is g: the graph the builder holds
\* afterwards and the GraphData returned
filter_graph(g, min_degree, entity_types, top_n) ==
    LET filtered_graph == TopNPass(TypePass(DegreePass(g, min_degree), entity_types), top_n)
        temp_graph     == g
        \* self.graph = filtered_graph while the node and edge lists are built
        data == [nodes |-> _build_nodes(filtered_graph),
                 edges |-> _build_edges(filtered_graph),
                 filtered |-> TRUE]
    IN  [graph |-> RestoreGraph(temp_graph, filtered_graph), data |-> data]

\* Graph.neighbors(n): the adjacency of n, in the order its edges were added
\* (a self-loop lists n itself)
neighbors(g, n) ==
    LET inc == SelectSeq(g.edges, LAMBDA e : n \in Pair(e))
    IN  [i \in DOMAIN inc |-> IF inc[i].source = n THEN inc[i].target ELSE inc[i].source]

Adj(g, n) == Range(neighbors(g, n))

\* hop distance by breadth-first search; Unreachable when there is no path
Unreachable == 0 - 1

RECURSIVE BfsDist(_, _, _, _, _)
BfsDist(g, frontier, seen, t, d) ==
    LET nxt == (UNION {Adj(g, n) : n \in frontier}) \ seen
    IN  IF nxt = {} THEN Unreachable
        ELSE IF t \in nxt THEN d
        ELSE BfsDist(g, nxt, seen \cup nxt, t, d + 1)

Dist(g, s, t) == IF s = t THEN 0 ELSE BfsDist(g, {s}, {s}, t, 1)

RECURSIVE SetSum(_, _)
\* the sum of f[x] over x in S
SetSum(f, S) ==
    IF S = {} THEN 0
    ELSE LET x == CHOOSE y \in S : TRUE IN f[x] + SetSum(f, S \ {x})

RECURSIVE Sigma(_, _, _)
\* the number of shortest paths from s to t (0 when there is none)
Sigma(g, s, t) ==
    IF s = t THEN 1
    ELSE IF Dist(g, s, t) = Unreachable THEN 0
    ELSE LET prev == {u \in Adj(g, t) \ {t} : Dist(g, s, u) = Dist(g, s, t) - 1}
         IN  SetSum([u \in prev |-> Sigma(g, s, u)], prev)

\* the number of shortest s-t paths through v
SigmaThrough(g, s, t, v) ==
    IF /\ Dist(g, s, t) # Unreachable
       /\ Dist(g, s, v) # Unreachable
       /\ Dist(g, v, t) # Unreachable
       /\ Dist(g, s, v) + Dist(g, v, t) = Dist(g, s, t)
    THEN Sigma(g, s, v) * Sigma(g, v, t)
    ELSE 0

\* betweenness is kept in units of 1/BetweennessScale: exact while the number
\* of shortest paths between two nodes divides it
BetweennessScale == 12

\* sum over unordered pairs {s, t} without v of sigma_st(v) / sigma_st
BetweennessUnits(g, v) ==
    LET others == NodeSet(g) \ {v}
        pairs  == {pr \in SUBSET others : Cardinality(pr) = 2}
        share(pr) ==
            LET s == CHOOSE x \in pr : TRUE
                t == CHOOSE x \in pr : x # s
            IN  IF Sigma(g, s, t) = 0 THEN 0
                ELSE (BetweennessScale * SigmaThrough(g, s, t, v)) \div Sigma(g, s, t)
    IN  SetSum([pr \in pairs |-> share(pr)], pairs)

\* nx.betweenness_centrality(G) (normalized, unweighted), in node order: with
\* more than 2 nodes the pair sum is scaled by 2 / ((n-1)(n-2)); score is the
\* numerator over the common denominator den
betweenness_centrality(g) ==
    LET n == Len(g.nodes)
    IN  [i \in DOMAIN g.nodes |->
            [node  |-> g.nodes[i].id,
             score |-> 2 * BetweennessUnits(g, g.nodes[i].id),
             den   |-> IF n > 2 THEN BetweennessScale * (n - 1) * (n - 2)
                       ELSE 1]]

\* top 20 by centrality
CentralityTop == 20

\* mutant: under 2 nodes the map is empty
_compute_centrality_empty(g) ==
    IF Len(g.nodes) < 2 THEN <<>>
    ELSE PySlice(SortedDesc(betweenness_centrality(g)), CentralityTop)

\* _compute_centrality: under 2 nodes every node scores 0.0, else the 20
\* highest betweenness values in descending order
_compute_centrality(g) ==
    IF Len(g.nodes) < 2
    THEN [i \in DOMAIN g.nodes |-> [node |-> g.nodes[i].id, score |-> 0, den |-> 1]]
    ELSE PySlice(SortedDesc(betweenness_centrality(g)), CentralityTop)

RECURSIVE Partitions(_)
Partitions(S) ==
    IF S = {} THEN {{}}
    ELSE LET x == CHOOSE y \in S : TRUE
         IN  UNION {{{B \cup {x}} \cup P : P \in Partitions(S \ (B \cup {x}))} :
                        B \in SUBSET (S \ {x})}

\* community_louvain.best_partition is randomised: any partition of the nodes
\* whose communities stay inside one connected component may come out (the
\* one of single nodes is also what the except branch gives)
LouvainOutcomes(g) ==
    {P \in Partitions(NodeSet(g)) :
        \A B \in P : \A x, y \in B : Dist(g, x, y) # Unreachable}

\* list(communities_dict.values()): communities in the order of their first
\* node, each in node order
CommunityList(g, P) ==
    LET BlockOf(n) == CHOOSE B \in P : n \in B
        firsts == SelectSeq(g.nodes,
                     LAMBDA n : \A m \in BlockOf(n.id) : NodeIdx(g, m) >= NodeIdx(g, n.id))
    IN  [i \in DOMAIN firsts |->
            LET members == SelectSeq(g.nodes, LAMBDA n : n.id \in BlockOf(firsts[i].id))
            IN  [k \in DOMAIN members |-> members[k].id]]

_detect_communities(g, P) ==
    IF Len(g.nodes) < 2
    THEN [i \in DOMAIN g.nodes |-> <<g.nodes[i].id>>]
    ELSE CommunityList(g, P)

\* _count_entity_types: a dict keyed by type in order of first appearance
_count_entity_types(g) ==
    LET firsts == SelectSeq([i \in DOMAIN g.nodes |-> [idx |-> i, t |-> g.nodes[i].entity_type]],
                     LAMBDA x : \A j \in 1..(x.idx - 1) : g.nodes[j].entity_type # x.t)
    IN  [k \in DOMAIN firsts |->
            [type  |-> firsts[k].t,
             count |-> Cardinality({j \in DOMAIN g.nodes : g.nodes[j].entity_type = firsts[k].t})]]

\* compute_analytics, with communities the list the community detection returns
compute_analytics(g, communities) ==
    IF Len(g.nodes) = 0
    THEN [total_nodes |-> 0, total_edges |-> 0, density |-> Frac(0, 1),
          avg_degree |-> Frac(0, 1), communities |-> <<>>,
          centrality_scores |-> <<>>, entity_counts |-> <<>>]
    ELSE [total_nodes |-> Len(g.nodes),
          total_edges |-> Len(g.edges),
          density |-> _calculate_density(g),
          avg_degree |-> Frac(SumSeq([i \in DOMAIN g.nodes |-> degree(g, g.nodes[i].id)]),
                              Len(g.nodes)),
          communities |-> communities,
          centrality_scores |-> _compute_centrality(g),
          entity_counts |-> _count_entity_types(g)]


-----------------------------------------------------------------------------
(* The query universe: graphs over a few named entities, two of them with
   over-generic names, and a hub with six neighbours *)

MaxMinDegree == 2

MaxTopN == 2

QEnt(n, t, c) == [key |-> n, original_name |-> n, type |-> t, count |-> c]

EntA == QEnt("A", "GENE_OR_GENE_PRODUCT", 1)
EntB == QEnt("B", "CHEMICAL", 2)
EntC == QEnt("C", "DISEASE", 1)
EntGene == QEnt("Gene", "GENE_OR_GENE_PRODUCT", 1)
EntCancer == QEnt("cancer", "DISEASE", 3)

QueryEntityDicts ==
    { <<EntA, EntB, EntC, EntGene, EntCancer>>,
      <<EntCancer, EntGene, EntC, EntB, EntA>>,
      <<EntA, EntB, EntC>> }

QueryRelList ==
    << Rel("A", "B", 2, <<"A binds B">>, "CO_OCCURRENCE"),
       Rel("B", "C", 3, <<"B treats C">>, "TREATS"),
       Rel("B", "Gene", 1, <<"s4", "s5", "s6", "s7">>, "CO_OCCURRENCE"),
       Rel("Gene", "cancer", 2, <<>>, "CAUSES"),
       Rel("cancer", "B", 1, <<"s8">>, "CO_OCCURRENCE"),
       Rel("C", "Gene", 2, <<"s9">>, "CO_OCCURRENCE") >>

SubseqsOf(list) == {SelectIdx(list, I, 1) : I \in SUBSET DOMAIN list}

HubLeaves == <<"A", "C", "Gene", "cancer", "D", "E">>

\* B co-occurs once with each of six entities
HubPayload ==
    [entities |-> <<EntB, EntA, EntC, EntGene, EntCancer,
                    QEnt("D", "CHEMICAL", 1), QEnt("E", "CELL_TYPE", 1)>>,
     relationships |-> [i \in DOMAIN HubLeaves |->
                           Rel("B", HubLeaves[i], 1, <<"s1">>, "CO_OCCURRENCE")]]

SpecialPayloads ==
    { [entities |-> <<EntA>>, relationships |-> <<>>],
      [entities |-> <<EntCancer>>, relationships |-> <<>>],
      [entities |-> <<EntA, EntB>>,
       relationships |-> <<Rel("A", "B", 2, <<"A binds B">>, "CO_OCCURRENCE")>>],
      [entities |-> <<EntA, EntB, EntC>>,
       relationships |-> <<Rel("B", "B", 1, <<"s1">>, "CO_OCCURRENCE"),
                           Rel("A", "B", 2, <<"A binds B">>, "CO_OCCURRENCE"),
                           Rel("C", "B", 3, <<"B treats C">>, "TREATS")>>] }

QueryPayloads ==
    [entities : QueryEntityDicts, relationships : SubseqsOf(QueryRelList)]
        \cup SpecialPayloads

TypeFilters ==
    { None, Some(<<>>), Some(<<"GENE_OR_GENE_PRODUCT">>), Some(<<"CHEMICAL", "DISEASE">>) }

TopNs == {None} \cup {Some(k) : k \in 0..MaxTopN}

InitQuery ==
    /\ inA \in QueryPayloads
    /\ inB = EmptyPayload
    /\ InitBuilder

QueryFrame == UNCHANGED <<inA, inB, result, call, chain, pc, readGraph>>

\* history: a filter_graph call that dropped nodes ran since the last build
ShrunkBefore == reply.op # "none" /\ reply.shrunk

\* graph_builder.filter_graph(min_degree, entity_types, top_n), the arguments
\* drawn from the given sets
FilterWith(min_degrees, type_filters, top_ns) ==
    \E min_degree \in min_degrees, entity_types \in type_filters, top_n \in top_ns :
        LET r == filter_graph(graph, min_degree, entity_types, top_n)
        IN  /\ graph' = r.graph
            /\ reply' = [op |-> "filter",
                         args |-> [min_degree |-> min_degree,
                                   entity_types |-> entity_types, top_n |-> top_n],
                         out |-> r.data, before |-> graph,
                         shrunk |-> ShrunkBefore \/ Len(r.data.nodes) < Len(graph.nodes)]
            /\ QueryFrame

FilterGraph == FilterWith(0..MaxMinDegree, TypeFilters, TopNs)

\* graph_builder.compute_analytics(); everything but the communities is
\* computed once
Analytics ==
    \E a \in {compute_analytics(graph, <<>>)} :
        \E P \in LouvainOutcomes(graph) :
            /\ reply' = [op |-> "analytics", args |-> <<>>,
                         out |-> [a EXCEPT !.communities = _detect_communities(graph, P)],
                         before |-> graph, shrunk |-> ShrunkBefore]
            /\ graph' = graph
            /\ QueryFrame

\* no query has run on the graph since it was built: main.py calls filter_graph
\* and compute_analytics right after build_graph (474-475, 507-508)
Fresh == reply = NoReply

NextFilter == BuildGraph \/ (Fresh /\ FilterGraph)

SpecFilter == InitQuery /\ [][NextFilter]_vars

NextAnalytics == BuildGraph \/ (Fresh /\ Analytics)

SpecAnalytics == InitQuery /\ [][NextAnalytics]_vars


-----------------------------------------------------------------------------
(* Claims about filter_graph and compute_analytics *)

\* the subgraph of g on the nodes of keep, in g's order
InducedOn(g, keep) == remove_nodes_from(g, NodeSet(g) \ keep)

\* the nodes of g that rank among the k highest degrees of g, ties going to the
\* node inserted first
TopByDegree(g, k) ==
    {n \in NodeSet(g) :
        Cardinality({m \in NodeSet(g) :
                        \/ degree(g, m) > degree(g, n)
                        \/ degree(g, m) = degree(g, n) /\ NodeIdx(g, m) < NodeIdx(g, n)}) < k}

\* the three passes as the contract states them: a pass runs whenever its
\* argument is given
ContractFilter(g, a) ==
    LET p1 == InducedOn(g, {n \in NodeSet(g) : degree(g, n) >= a.min_degree})
        p2 == IF a.entity_types = None THEN p1
              ELSE InducedOn(p1, {p1.nodes[i].id : i \in {j \in DOMAIN p1.nodes :
                                    p1.nodes[j].entity_type \in Range(a.entity_types[1])}})
    IN  IF a.top_n = None THEN p2 ELSE InducedOn(p2, TopByDegree(p2, a.top_n[1]))

(* C12: filter(minDegree, allowedTypes, topN) returns exactly the graph of the
   three passes in order (degree below minDegree removed; if allowedTypes is
   given, types outside it removed; if topN is given, only the topN
   highest-degree remaining nodes kept, ties by insertion order), and whenever
   topN is given the result has at most topN nodes. *)
C12_FilterIsThreePasses ==
    reply.op = "filter" =>
        /\ reply.out.nodes = _build_nodes(ContractFilter(reply.before, reply.args))
        /\ reply.out.edges = _build_edges(ContractFilter(reply.before, reply.args))
        /\ reply.args.top_n # None => Len(reply.out.nodes) <= reply.args.top_n[1]

IsAnalyticsUnderTwoNodes == reply.op = "analytics" /\ Len(reply.before.nodes) < 2

(* C20 as stated: computeAnalytics returns an empty centralityScores map
   whenever the graph has fewer than 2 nodes, the one-node graph included. *)
C20_CentralityEmptyUnderTwoNodes ==
    IsAnalyticsUnderTwoNodes => reply.out.centrality_scores = <<>>

(* C20: whenever the graph has fewer than 2 nodes, computeAnalytics returns a
   centralityScores map that holds every node of the graph with score 0: the
   empty map for the empty graph, the one node with 0 for a one-node graph. *)
C20_CentralityZeroUnderTwoNodes ==
    IsAnalyticsUnderTwoNodes =>
        /\ Len(reply.out.centrality_scores) = Len(reply.before.nodes)
        /\ \A i \in DOMAIN reply.out.centrality_scores :
              /\ reply.out.centrality_scores[i].node = reply.before.nodes[i].id
              /\ reply.out.centrality_scores[i].score = 0

\* analytics of a graph with exactly one node
C20_Witness ==
    /\ reply.op = "analytics"
    /\ Len(reply.before.nodes) = 1
    /\ reply.out.total_nodes = 1
    /\ Len(reply.out.centrality_scores) = 1


-----------------------------------------------------------------------------
(* HypothesisAgent (hypothesis_agent.py) over the builder's graph.
   A confidence is a number of hundredths; before rounding it is an exact
   fraction.  round(x, 2) of a float that lies exactly half way between two
   hundredths goes up or down with the float's last bits: ties_up is the way
   it goes in one call. *)

GenericEntities ==
    { "cancer", "nsclc", "disease", "cell", "cells", "protein", "gene",
      "micrornas", "inflammation", "therapy", "treatment", "pathway",
      "field cancerization" }

\* str.lower() on the names in use
Lower(n) ==
    CASE n = "A" -> "a" [] n = "B" -> "b" [] n = "C" -> "c" [] n = "D" -> "d"
      [] n = "E" -> "e" [] n = "Gene" -> "gene" [] OTHER -> n

IsGeneric(n) == Lower(n) \in GenericEntities

Min(x, y) == IF x <= y THEN x ELSE y

RECURSIVE Flatten(_)
Flatten(ss) == IF ss = <<>> THEN <<>> ELSE Head(ss) \o Flatten(Tail(ss))

ConfBase == 50

ConfSpan == 40

GenericPenalty == 8

ConfFloor == 30

BridgeBase == 60

BridgeSpan == 35

\* round(num / den, 2) in hundredths, num and den being in hundredths already
RoundHundredths(num, den, ties_up) ==
    LET q == num \div den
        r == num % den
    IN  IF 2 * r < den THEN q
        ELSE IF 2 * r > den THEN q + 1
        ELSE IF ties_up THEN q + 1 ELSE q

\* mutant: the focus is not looked at
StartNodes_all(g, focus) == [i \in DOMAIN g.nodes |-> g.nodes[i].id]

\* nodes = [focus] if focus and focus in self.graph else list(self.graph.nodes())
StartNodes(g, focus) ==
    IF focus # None /\ focus[1] # "" /\ has_node(g, focus[1])
    THEN <<focus[1]>>
    ELSE [i \in DOMAIN g.nodes |-> g.nodes[i].id]

\* self.graph.neighbors(b) if b in self.graph else []
OuterNeighbors(g, b) == IF has_node(g, b) THEN neighbors(g, b) ELSE <<>>

\* the (a, b, c) the three nested loops visit, in order
TriplesAt(g, b) ==
    LET outer == OuterNeighbors(g, b)
        inner == neighbors(g, b)
    IN  Flatten([i \in DOMAIN outer |->
                    [j \in DOMAIN inner |-> [a |-> outer[i], b |-> b, c |-> inner[j]]]])

Triples(g, nodes) == Flatten([k \in DOMAIN nodes |-> TriplesAt(g, nodes[k])])

\* the inner self.graph.neighbors(b) raises for a b that is not in the graph
IndirectRaises(g, nodes) ==
    \E k \in DOMAIN nodes : OuterNeighbors(g, nodes[k]) # <<>> /\ ~has_node(g, nodes[k])

\* mutant: the direct edge is not looked for
OpenTriad_any(g, a, c) == TRUE

\* not self.graph.has_edge(a, c)
OpenTriad(g, a, c) == ~has_edge(g, a, c)

\* mutant: no upper clamp
ClampBase_open(sum, d) == Max(0, sum)

\* max(0.0, min(0.4, base)) with base = sum / d, as a numerator over d
ClampBase(sum, d) == Max(0, Min(ConfSpan * d, sum))

\* mutant: a generic middle node is penalised as well
EndpointPenalty_mid(a, b, c) ==
    (IF IsGeneric(a) THEN GenericPenalty ELSE 0)
        + (IF IsGeneric(b) THEN GenericPenalty ELSE 0)
        + (IF IsGeneric(c) THEN GenericPenalty ELSE 0)

\* conf -= 0.08 for a generic a, and for a generic c
EndpointPenalty(a, b, c) ==
    (IF IsGeneric(a) THEN GenericPenalty ELSE 0)
        + (IF IsGeneric(c) THEN GenericPenalty ELSE 0)

\* conf of lines 38-50, before rounding
TriadicConf(g, a, b, c) ==
    LET w_ab  == EdgeData(g, a, b).weight
        w_bc  == EdgeData(g, b, c).weight
        deg_b == Max(1, degree(g, b))
        d     == Max(2, deg_b)
        conf  == ConfBase * d + ClampBase(100 * (w_ab + w_bc), d)
                    - EndpointPenalty(a, b, c) * d
    IN  Frac(Max(ConfFloor * d, conf), d)

IndirectHypothesis(g, a, b, c, ties_up) ==
    LET conf == TriadicConf(g, a, b, c)
    IN  [title |-> <<"indirect", a, c, b>>,
         explanation |-> <<a, b, EdgeData(g, a, b).weight, b, c, EdgeData(g, b, c).weight>>,
         entities |-> <<a, b, c>>,
         evidence_sentences |-> PySlice(EdgeData(g, a, b).evidence, 1)
                                  \o PySlice(EdgeData(g, b, c).evidence, 1),
         edge_pairs |-> << <<a, b>>, <<b, c>> >>,
         confidence |-> RoundHundredths(conf.num, conf.den, ties_up)]

RECURSIVE IndirectLoop(_, _, _, _, _, _, _)
IndirectLoop(g, triples, i, visited_pairs, hypotheses, max_results, ties_up) ==
    IF i > Len(triples) THEN hypotheses
    ELSE LET t    == triples[i]
             pair == {t.a, t.c}
         IN  IF t.a = t.c \/ pair \in visited_pairs
             THEN IndirectLoop(g, triples, i + 1, visited_pairs, hypotheses,
                               max_results, ties_up)
             ELSE IF ~OpenTriad(g, t.a, t.c)
             THEN IndirectLoop(g, triples, i + 1, visited_pairs \cup {pair}, hypotheses,
                               max_results, ties_up)
             ELSE LET more == Append(hypotheses,
                                     IndirectHypothesis(g, t.a, t.b, t.c, ties_up))
                  IN  IF Len(more) >= max_results THEN more
                      ELSE IndirectLoop(g, triples, i + 1, visited_pairs \cup {pair},
                                        more, max_results, ties_up)

indirect_connection_hypotheses(g, max_results, focus, ties_up) ==
    IndirectLoop(g, Triples(g, StartNodes(g, focus)), 1, {}, <<>>, max_results, ties_up)

BridgeMinNodes == 3

\* mutant: bridges are looked for from 2 nodes on
TooFewForBridges_two(g) == Len(g.nodes) < BridgeMinNodes - 1

\* if self.graph.number_of_nodes() < 3: return []
TooFewForBridges(g) == Len(g.nodes) < BridgeMinNodes

\* samples: the first evidence sentence of the edges to the first 3 neighbours
\* that have one
BridgeSamples(g, node) ==
    LET nbrs == PySlice(neighbors(g, node), 3)
        with == SelectSeq(nbrs, LAMBDA nbr : EdgeData(g, node, nbr).evidence # <<>>)
    IN  [i \in DOMAIN with |-> EdgeData(g, node, with[i]).evidence[1]]

\* confidence = 0.6 + 0.35 * (score - min_c) / span, before rounding
BridgeConf(score, min_c, span) ==
    Frac(BridgeBase * span + BridgeSpan * (score - min_c), span)

BridgeHypothesis(g, item, min_c, span, ties_up) ==
    LET conf == BridgeConf(item.score, min_c, span)
    IN  [title |-> <<"bridge", item.node>>,
         explanation |-> <<item.node, Frac(item.score, item.den)>>,
         entities |-> <<item.node>>,
         evidence_sentences |-> PySlice(BridgeSamples(g, item.node), 2),
         edge_pairs |-> <<>>,
         confidence |-> RoundHundredths(conf.num, conf.den, ties_up)]

\* span = (max_c - min_c) or 1.0
BridgeSpanOf(max_c, min_c) == IF max_c - min_c = 0 THEN 1 ELSE max_c - min_c

\* lines 84-102: the hypotheses of the bridge nodes that are kept
BridgeItems(g, kept, min_c, span, ties_up) ==
    [i \in DOMAIN kept |-> BridgeHypothesis(g, kept[i], min_c, span, ties_up)]

\* lines 77-102, sorted_all being the nodes by centrality, highest first
BridgesOfSorted(g, sorted_all, top_k, ties_up) ==
    IF sorted_all = <<>> THEN <<>>
    ELSE BridgeItems(g,
                     SelectSeq(PySlice(sorted_all, top_k), LAMBDA it : ~IsGeneric(it.node)),
                     sorted_all[Len(sorted_all)].score,
                     BridgeSpanOf(sorted_all[1].score, sorted_all[Len(sorted_all)].score),
                     ties_up)

high_betweenness_bridges(g, top_k, ties_up) ==
    IF TooFewForBridges(g) THEN <<>>
    ELSE BridgesOfSorted(g, SortedDesc(betweenness_centrality(g)), top_k, ties_up)

\* int(x) of a quotient num / den of integers, den > 0: towards zero
IntOf(num, den) == IF num >= 0 THEN num \div den ELSE 0 - ((0 - num) \div den)

FallbackTopK == 3

\* mutant: the whole budget goes to the triadic search
BudgetIndirect_all(max_results) == Max(1, max_results)

\* budget_indirect = max(1, int(max_results * 0.8))
BudgetIndirect(max_results) == Max(1, IntOf(8 * max_results, 10))

\* lines 110-112: results after the triadic search, topped up with bridges
WithBridges(g, results, max_results, budget_bridge, ties_up) ==
    IF Len(results) < max_results
    THEN results \o high_betweenness_bridges(g, budget_bridge, ties_up)
    ELSE results

\* lines 114-115: if nothing found, a couple of bridge nodes
WithFallback(g, results, max_results, ties_up) ==
    IF results = <<>>
    THEN high_betweenness_bridges(g, Min(FallbackTopK, max_results), ties_up)
    ELSE results

\* the hypotheses generate returns, and whether it raised
generate(g, focus, max_results, ties_up) ==
    [raised |-> IndirectRaises(g, StartNodes(g, focus)),
     hypotheses |->
        PySlice(WithFallback(g,
                    WithBridges(g,
                        indirect_connection_hypotheses(g, BudgetIndirect(max_results),
                                                       focus, ties_up),
                        max_results, max_results - BudgetIndirect(max_results), ties_up),
                    max_results, ties_up),
                max_results)]

-----------------------------------------------------------------------------
(* Hypothesis generation on the built graph *)

MaxResults == 5

Focuses == { None, Some(""), Some("B"), Some("Gene"), Some("Z") }

HypoPayloads == QueryPayloads \cup {HubPayload}

InitHypo ==
    /\ inA \in HypoPayloads
    /\ inB = EmptyPayload
    /\ InitBuilder

\* HypothesisAgent(graph).generate(focus, max_results), the arguments drawn
\* from the given sets
GenerateWith(focuses, sizes) ==
    \E focus \in focuses, max_results \in sizes, ties_up \in BOOLEAN :
        /\ reply' = [op |-> "generate",
                     args |-> [focus |-> focus, max_results |-> max_results],
                     out |-> generate(graph, focus, max_results, ties_up),
                     before |-> graph, shrunk |-> ShrunkBefore]
        /\ graph' = graph
        /\ QueryFrame

GenerateHypotheses == GenerateWith(Focuses, 0..MaxResults)

\* the agent is made on a graph and asked once; runs of several queries on one
\* graph are in SpecQuery
NextHypo == BuildGraph \/ (Fresh /\ GenerateHypotheses)

SpecHypo == InitHypo /\ [][NextHypo]_vars


-----------------------------------------------------------------------------
(* Claims about hypothesis generation *)

Hypotheses == reply.out.hypotheses

IsTriadic(h) == Len(h.entities) = 3

IsBridge(h) == Len(h.entities) = 1

TriadicOf(hs) == SelectSeq(hs, IsTriadic)

BridgesOf(hs) == SelectSeq(hs, IsBridge)

(* C14: every triadic-closure hypothesis with entities [A, B, C] has A # C,
   edges (A,B) and (B,C) in the graph and no edge (A,C) in the graph. *)
C14_TriadIsOpen ==
    reply.op = "generate" =>
        \A i \in DOMAIN Hypotheses :
            IsTriadic(Hypotheses[i]) =>
                LET e == Hypotheses[i].entities
                IN  /\ e[1] # e[3]
                    /\ {e[1], e[2]} \in EdgePairs(reply.before)
                    /\ {e[2], e[3]} \in EdgePairs(reply.before)
                    /\ {e[1], e[3]} \notin EdgePairs(reply.before)

\* a triadic hypothesis is returned for a middle node that also closes a
\* triangle with two other neighbours, which gets none
C14_Witness ==
    /\ reply.op = "generate"
    /\ \E i \in DOMAIN Hypotheses :
          /\ IsTriadic(Hypotheses[i])
          /\ \E x, y \in NodeSet(reply.before) :
                /\ x # y
                /\ {x, Hypotheses[i].entities[2]} \in EdgePairs(reply.before)
                /\ {y, Hypotheses[i].entities[2]} \in EdgePairs(reply.before)
                /\ {x, y} \in EdgePairs(reply.before)
                /\ \A j \in DOMAIN Hypotheses :
                      {x, y} # {Hypotheses[j].entities[1],
                                Hypotheses[j].entities[Len(Hypotheses[j].entities)]}

(* C15: every hypothesis generate returns, triadic or bridge-node, has a
   confidence between 0.3 and 0.95 inclusive (30 and 95 hundredths). *)
C15_ConfidenceBounds ==
    reply.op = "generate" =>
        \A i \in DOMAIN Hypotheses :
            /\ Hypotheses[i].confidence >= ConfFloor
            /\ Hypotheses[i].confidence <= BridgeBase + BridgeSpan

\* one reply holds a triadic hypothesis whose weight sum is clamped and whose
\* two endpoints are generic, and the bridge hypothesis of the top node
C15_Witness ==
    /\ reply.op = "generate"
    /\ \E i, j \in DOMAIN Hypotheses :
          /\ IsTriadic(Hypotheses[i])
          /\ IsGeneric(Hypotheses[i].entities[1])
          /\ IsGeneric(Hypotheses[i].entities[3])
          /\ Hypotheses[i].confidence = ConfBase + ConfSpan - 2 * GenericPenalty
          /\ IsBridge(Hypotheses[j])
          /\ Hypotheses[j].confidence = BridgeBase + BridgeSpan

\* 0.5 + clamp(0, 0.4, (weight(A,B) + weight(B,C)) / max(2, degree(B))), minus
\* 0.08 per endpoint that listed(name) holds of, floored at 0.3: a fraction of
\* hundredths
FormulaConf(g, a, b, c, listed(_)) ==
    LET sum == EdgeData(g, a, b).weight + EdgeData(g, b, c).weight
        d   == IF degree(g, b) > 2 THEN degree(g, b) ELSE 2
        clamped == IF 100 * sum < 0 THEN 0
                   ELSE IF 100 * sum > 40 * d THEN 40 * d ELSE 100 * sum
        minus   == (IF listed(a) THEN 8 ELSE 0) + (IF listed(c) THEN 8 ELSE 0)
        conf    == 50 * d + clamped - minus * d
    IN  Frac(IF conf < 30 * d THEN 30 * d ELSE conf, d)

NameListed(n) == n \in GenericEntities

\* the graph has just the edges A-B of weight 2 and B-C of weight 3
IsScenarioPath(g) ==
    /\ EdgePairs(g) = {{"A", "B"}, {"B", "C"}}
    /\ EdgeData(g, "A", "B").weight = 2
    /\ EdgeData(g, "B", "C").weight = 3

TriadEvidence(g, e) ==
    Take(EdgeData(g, e[1], e[2]).evidence, 1) \o Take(EdgeData(g, e[2], e[3]).evidence, 1)

(* C16 as stated: the confidence of a triadic hypothesis A-C via B is the value
   of 0.5 + clamp(0, 0.4, (w(A,B) + w(B,C)) / max(2, degree(B))) minus 0.08 for
   each of A and C whose name is in the denylist, floored at 0.3; for the graph
   A-B (w=2), B-C (w=3) it is 0.9 and the evidence is the first sentence of A-B
   followed by the first of B-C. *)
C16_TriadicConfidenceExact ==
    reply.op = "generate" =>
        \A i \in DOMAIN Hypotheses :
            IsTriadic(Hypotheses[i]) =>
                LET e == Hypotheses[i].entities
                    f == FormulaConf(reply.before, e[1], e[2], e[3], NameListed)
                IN  /\ Hypotheses[i].confidence * f.den = f.num
                    /\ Hypotheses[i].evidence_sentences = TriadEvidence(reply.before, e)
                    /\ IsScenarioPath(reply.before) => Hypotheses[i].confidence = 90

(* C16: the confidence of a triadic hypothesis A-C via B is that value, with the
   0.08 taken off for each of A and C whose lower-cased name is in the denylist
   (never for B), rounded to the nearest hundredth; for the graph A-B (w=2),
   B-C (w=3) it is 0.9, and the evidence is the first sentence of A-B followed
   by the first of B-C. *)
C16_TriadicConfidenceRounded ==
    reply.op = "generate" =>
        \A i \in DOMAIN Hypotheses :
            IsTriadic(Hypotheses[i]) =>
                LET e == Hypotheses[i].entities
                    f == FormulaConf(reply.before, e[1], e[2], e[3], IsGeneric)
                    off == Hypotheses[i].confidence * f.den - f.num
                IN  /\ 2 * off <= f.den /\ 2 * (0 - off) <= f.den
                    /\ Hypotheses[i].evidence_sentences = TriadEvidence(reply.before, e)
                    /\ IsScenarioPath(reply.before) => Hypotheses[i].confidence = 90

\* the reply for the scenario path holds the hypothesis A-C via B
C16_Witness ==
    /\ reply.op = "generate"
    /\ IsScenarioPath(reply.before)
    /\ \E i \in DOMAIN Hypotheses :
          /\ Hypotheses[i].entities = <<"A", "B", "C">>
          /\ Hypotheses[i].confidence = 90
          /\ Hypotheses[i].evidence_sentences = <<"A binds B", "B treats C">>

\* max(1, floor(0.8 * m))
TriadicShare(m) == IF (8 * m) \div 10 > 1 THEN (8 * m) \div 10 ELSE 1

\* no triadic hypothesis comes after a bridge-node hypothesis
TriadicFirst(hs) ==
    \A i, j \in DOMAIN hs : (IsBridge(hs[i]) /\ IsTriadic(hs[j])) => j < i

\* the nodes a bridge-node hypothesis can be made for
BridgeCandidates(g) ==
    IF Len(g.nodes) < 3 THEN {} ELSE {n \in NodeSet(g) : ~IsGeneric(n)}

IsGenerateFrom1 == reply.op = "generate" /\ reply.args.max_results >= 1

(* C17 as stated: generate(focus, maxResults), maxResults >= 1, returns at most
   maxResults hypotheses, the triadic ones (at most max(1, floor(0.8 maxResults)))
   followed by bridge-node ones, and bridge-node hypotheses backfill the slots
   the triadic search leaves unused: their number is bounded by maxResults minus
   the triadic count, not by the 20% share. *)
C17_BridgesBackfill ==
    IsGenerateFrom1 =>
        LET m  == reply.args.max_results
            nt == Len(TriadicOf(Hypotheses))
            nb == Len(BridgesOf(Hypotheses))
        IN  /\ Len(Hypotheses) <= m
            /\ TriadicFirst(Hypotheses)
            /\ nt <= TriadicShare(m)
            /\ nb = Min(Cardinality(BridgeCandidates(reply.before)), m - nt)

(* C17: generate(focus, maxResults), maxResults >= 1, returns at most maxResults
   hypotheses, the triadic ones (at most max(1, floor(0.8 maxResults))) followed
   by bridge-node ones; the bridge-node hypotheses number at most
   maxResults - max(1, floor(0.8 maxResults)), also when the triadic search
   leaves slots unused, except that a reply without a triadic hypothesis may
   hold up to min(3, maxResults) of them (the fallback). *)
C17_BridgesWithinShare ==
    IsGenerateFrom1 =>
        LET m  == reply.args.max_results
            nt == Len(TriadicOf(Hypotheses))
            nb == Len(BridgesOf(Hypotheses))
        IN  /\ Len(Hypotheses) <= m
            /\ TriadicFirst(Hypotheses)
            /\ nt <= TriadicShare(m)
            /\ nt + nb = Len(Hypotheses)
            /\ nt > 0 => nb <= m - TriadicShare(m)
            /\ nt = 0 => nb <= Max(m - TriadicShare(m), Min(3, m))

\* the triadic search fills fewer slots than its share, nodes for more bridge
\* hypotheses exist, and the reply holds just the share of bridge hypotheses
C17_Witness ==
    /\ IsGenerateFrom1
    /\ LET m  == reply.args.max_results
           nt == Len(TriadicOf(Hypotheses))
           nb == Len(BridgesOf(Hypotheses))
       IN  /\ nt > 0 /\ nt < TriadicShare(m)
           /\ nb = m - TriadicShare(m) /\ nb > 0
           /\ Cardinality(BridgeCandidates(reply.before)) > nb
           /\ nt + nb < m

\* neither search of generate yields a hypothesis
BothSearchesEmpty ==
    /\ reply.op = "generate"
    /\ reply.args.max_results >= 1
    /\ indirect_connection_hypotheses(reply.before, BudgetIndirect(reply.args.max_results),
                                      reply.args.focus, FALSE) = <<>>
    /\ high_betweenness_bridges(reply.before,
            reply.args.max_results - BudgetIndirect(reply.args.max_results), FALSE) = <<>>

\* the k nodes of highest betweenness, generic names included
TopBetweenness(g, k) ==
    LET top == PySlice(SortedDesc(betweenness_centrality(g)), k)
    IN  [i \in DOMAIN top |-> top[i].node]

(* C18: when neither the triadic nor the bridge-node search yields a
   hypothesis, generate returns the bridge-node hypotheses of the up to 3
   highest-betweenness nodes, chosen without regard to the denylist (for a
   graph of at least 3 nodes). *)
C18_FallbackIgnoresDenylist ==
    (BothSearchesEmpty /\ Len(reply.before.nodes) >= 3) =>
        [i \in DOMAIN Hypotheses |-> Hypotheses[i].entities[1]]
            = TopBetweenness(reply.before, Min(3, reply.args.max_results))

(* C19: generate does not raise, whatever the graph and the focus (none,
   present in the graph or absent from it); on the empty graph it returns the
   empty list, and on a graph with fewer than 3 nodes no bridge-node
   hypothesis. *)
C19_GenerateTotal ==
    reply.op = "generate" =>
        /\ ~reply.out.raised
        /\ reply.before.nodes = <<>> => Hypotheses = <<>>
        /\ Len(reply.before.nodes) < 3 => BridgesOf(Hypotheses) = <<>>

\* a focus that is not in the graph, on a graph of two joined nodes
C19_Witness ==
    /\ reply.op = "generate"
    /\ reply.args.focus # None
    /\ reply.args.focus[1] # ""
    /\ reply.args.focus[1] \notin NodeSet(reply.before)
    /\ Len(reply.before.nodes) = 2
    /\ Len(reply.before.edges) = 1
    /\ reply.args.max_results >= 2
    /\ ~reply.out.raised
    /\ Hypotheses = <<>>


-----------------------------------------------------------------------------
(* GraphConversationalAgent (graph_agent.py): the tools read the graph the
   agent was given.  A Python set is iterated in an order the program does not
   fix, so a tool that iterates one has several possible results. *)

\* what get_neighbors and shortest_path report of an edge
EdgeReport(g, a, b) ==
    [source |-> a, target |-> b,
     weight |-> EdgeData(g, a, b).weight,
     relationship_type |-> EdgeData(g, a, b).relationship_type,
     evidence |-> PySlice(EdgeData(g, a, b).evidence, 3)]

\* mutant: a neighbour is reported whether or not it was visited before
VisitNeighbors_revisit(g, node, nbrs, i, st) ==
    [visited       |-> st.visited \cup Range(nbrs),
     next_frontier |-> st.next_frontier \cup Range(nbrs),
     layer         |-> st.layer \o [k \in 1..(Len(nbrs) - i + 1) |->
                                       EdgeReport(g, node, nbrs[i + k - 1])]]

RECURSIVE VisitNeighbors(_, _, _, _, _)
\* for neighbor in self.graph.neighbors(node): ...  on the state st of the
\* breadth-first search
VisitNeighbors(g, node, nbrs, i, st) ==
    IF i > Len(nbrs) THEN st
    ELSE IF nbrs[i] \in st.visited THEN VisitNeighbors(g, node, nbrs, i + 1, st)
    ELSE VisitNeighbors(g, node, nbrs, i + 1,
            [visited       |-> st.visited \cup {nbrs[i]},
             next_frontier |-> st.next_frontier \cup {nbrs[i]},
             layer         |-> Append(st.layer, EdgeReport(g, node, nbrs[i]))])

RECURSIVE LayerOutcomes(_, _, _)
\* for node in frontier: ...  in every order of the set frontier
LayerOutcomes(g, frontier, st) ==
    IF frontier = {} THEN {st}
    ELSE UNION {LayerOutcomes(g, frontier \ {node},
                              VisitNeighbors(g, node, neighbors(g, node), 1, st)) :
                    node \in frontier}

RECURSIVE LayersOutcomes(_, _, _, _, _)
\* the loop "for _ in range(max(1, depth))" with rounds iterations left
LayersOutcomes(g, frontier, visited, layers, rounds) ==
    IF rounds = 0 THEN {layers}
    ELSE UNION {IF st.next_frontier = {} THEN {Append(layers, st.layer)}
                ELSE LayersOutcomes(g, st.next_frontier, st.visited,
                                    Append(layers, st.layer), rounds - 1) :
                    st \in LayerOutcomes(g, frontier,
                              [visited |-> visited, next_frontier |-> {}, layer |-> <<>>])}

\* the results get_neighbors can return
get_neighbors(g, entity, depth) ==
    IF ~has_node(g, entity)
    THEN {[entity |-> entity, key |-> "neighbors", value |-> <<>>]}
    ELSE {[entity |-> entity, key |-> "layers", value |-> layers] :
             layers \in LayersOutcomes(g, {entity}, {entity}, <<>>, Max(1, depth))}

RECURSIVE PathsFrom(_, _, _)
\* the simple paths that extend path to t
PathsFrom(g, path, t) ==
    IF path[Len(path)] = t THEN {path}
    ELSE UNION {PathsFrom(g, Append(path, n), t) :
                    n \in Adj(g, path[Len(path)]) \ Range(path)}

PathWeight(g, path) ==
    SumSeq([i \in 1..(Len(path) - 1) |-> EdgeData(g, path[i], path[i + 1]).weight])

\* mutant: the path of fewest edges, the weights not looked at
WeightedShortestPaths_hops(g, source, target) ==
    LET all == PathsFrom(g, <<source>>, target)
    IN  {p \in all : \A q \in all : Len(p) <= Len(q)}

\* nx.shortest_path(G, source, target, weight='weight'): a path of least total
\* weight, any of them when several have it; none raises NetworkXNoPath
WeightedShortestPaths(g, source, target) ==
    LET all == PathsFrom(g, <<source>>, target)
    IN  {p \in all : \A q \in all : PathWeight(g, p) <= PathWeight(g, q)}

\* mutant: a missing path is reported as a path without nodes
NoPaths_entry == [paths |-> << [nodes |-> <<>>, edges |-> <<>>, total_weight |-> 0] >>]

\* return {"paths": []}
NoPaths == [paths |-> <<>>]

\* the results shortest_path can return
shortest_path(g, source, target) ==
    IF ~has_node(g, source) \/ ~has_node(g, target) THEN {NoPaths}
    ELSE IF WeightedShortestPaths(g, source, target) = {} THEN {NoPaths}
    ELSE {[paths |-> << [nodes |-> path,
                         edges |-> [i \in 1..(Len(path) - 1) |->
                                       EdgeReport(g, path[i], path[i + 1])],
                         total_weight |-> PathWeight(g, path)] >>] :
             path \in WeightedShortestPaths(g, source, target)}

RECURSIVE Orderings(_)
\* the sequences that list each element of S once
Orderings(S) ==
    IF S = {} THEN {<<>>}
    ELSE UNION {{<<x>> \o o : o \in Orderings(S \ {x})} : x \in S}

RECURSIVE Intersection_union(_)
\* mutant: the neighbours of any of the entities
Intersection_union(sets) ==
    IF Len(sets) = 1 THEN sets[1] ELSE sets[1] \cup Intersection_union(Tail(sets))

RECURSIVE Intersection(_)
\* set.intersection(*sets) of a non-empty sequence of sets
Intersection(sets) ==
    IF Len(sets) = 1 THEN sets[1] ELSE sets[1] \cap Intersection(Tail(sets))

\* the results common_connections can return: the common neighbours of degree
\* at least min_degree, by descending degree, equal degrees in the order the
\* set gave them
common_connections(g, entities, min_degree) ==
    LET present == SelectSeq(entities, LAMBDA e : has_node(g, e))
    IN  IF Len(present) < 2 THEN {[common |-> <<>>]}
        ELSE LET common == Intersection([i \in DOMAIN present |-> Adj(g, present[i])])
                 found  == {n \in common : degree(g, n) >= min_degree}
             IN  {[common |-> [i \in DOMAIN o |-> [entity |-> o[i], degree |-> degree(g, o[i])]]] :
                     o \in {o \in Orderings(found) :
                               \A i, j \in DOMAIN o :
                                   i < j => degree(g, o[i]) >= degree(g, o[j])}}

RECURSIVE Expand(_, _, _)
\* rounds times: nodes_to_include.update(neighbours of its members in the graph)
Expand(g, nodes_to_include, rounds) ==
    IF rounds <= 0 THEN nodes_to_include
    ELSE Expand(g, nodes_to_include
                     \cup UNION {Adj(g, n) : n \in nodes_to_include \cap NodeSet(g)},
                rounds - 1)

\* subgraph: the depth rounds run once for each listed centre that is in the
\* graph; nodes and edges are reported as lists in the order of a set-filtered
\* view, kept here as sets
subgraph(g, center_entities, depth) ==
    LET present == SelectSeq(center_entities, LAMBDA e : has_node(g, e))
        nodes_to_include == Expand(g, Range(center_entities), Len(present) * Max(0, depth))
        sg == remove_nodes_from(g, NodeSet(g) \ nodes_to_include)
    IN  [nodes |-> NodeSet(sg), edges |-> EdgePairs(sg)]


-----------------------------------------------------------------------------
(* Runs of queries, in any number and order, on the graph of one build *)

MaxDepth == 2

QueryNames == {"A", "C", "Z"}

EntityLists == { <<>>, <<"B">>, <<"A", "C">>, <<"Z", "A", "Gene">>, <<"C", "cancer">> }

RunPayloads ==
    [entities : { <<EntA, EntB, EntC, EntGene, EntCancer>> },
     relationships : { SubSeq(QueryRelList, 1, 2), SubSeq(QueryRelList, 2, 5),
                       QueryRelList }]

InitRun ==
    /\ inA \in RunPayloads
    /\ inB = EmptyPayload
    /\ InitBuilder

\* agent.get_neighbors(entity, depth)
Neighbors ==
    \E entity \in QueryNames, depth \in 0..MaxDepth :
        \E out \in get_neighbors(graph, entity, depth) :
            /\ reply' = [op |-> "neighbors", args |-> [entity |-> entity, depth |-> depth],
                         out |-> out, before |-> graph, shrunk |-> ShrunkBefore]
            /\ graph' = graph
            /\ QueryFrame

\* agent.shortest_path(source, target)
ShortestPath ==
    \E source \in QueryNames, target \in QueryNames :
        \E out \in shortest_path(graph, source, target) :
            /\ reply' = [op |-> "shortest_path",
                         args |-> [source |-> source, target |-> target],
                         out |-> out, before |-> graph, shrunk |-> ShrunkBefore]
            /\ graph' = graph
            /\ QueryFrame

\* agent.common_connections(entities, min_degree)
CommonConnections ==
    \E entities \in EntityLists, min_degree \in 0..MaxMinDegree :
        \E out \in common_connections(graph, entities, min_degree) :
            /\ reply' = [op |-> "common_connections",
                         args |-> [entities |-> entities, min_degree |-> min_degree],
                         out |-> out, before |-> graph, shrunk |-> ShrunkBefore]
            /\ graph' = graph
            /\ QueryFrame

\* agent.subgraph(center_entities, depth)
Subgraph ==
    \E center_entities \in EntityLists, depth \in 0..MaxDepth :
        /\ reply' = [op |-> "subgraph",
                     args |-> [center_entities |-> center_entities, depth |-> depth],
                     out |-> subgraph(graph, center_entities, depth), before |-> graph,
                     shrunk |-> ShrunkBefore]
        /\ graph' = graph
        /\ QueryFrame

NextRun ==
    \/ BuildGraph
    \/ FilterWith(0..MaxMinDegree, {None}, TopNs)
    \/ Analytics
    \/ GenerateWith({None, Some("B")}, {MaxResults})
    \/ Neighbors
    \/ ShortestPath
    \/ CommonConnections
    \/ Subgraph

SpecQuery == InitRun /\ [][NextRun]_vars

(* C13: filter, computeAnalytics, hypothesis generation, neighbors,
   shortestPath, commonConnections and subgraph leave the builder's graph as it
   was before the call, and after any run of such calls the graph is still the
   one the last build returned, node for node and edge for edge with its
   attributes. *)
C13_QueriesLeaveGraph ==
    reply.op # "none" =>
        /\ graph = reply.before
        /\ GraphDataOf(graph) = result

\* a filter that dropped nodes has run, and a subgraph query after it
C13_Witness ==
    /\ reply.op = "subgraph"
    /\ reply.shrunk
    /\ reply.out.edges # {}
    /\ Len(graph.nodes) = Len(result.nodes)

-----------------------------------------------------------------------------
(* Density of built graphs *)

\* the triangle A-B, B-C, A-C with all weights 1
TrianglePayload ==
    [entities |-> <<EntA, EntB, EntC>>,
     relationships |-> <<Rel("A", "B", 1, <<"s1">>, "CO_OCCURRENCE"),
                         Rel("B", "C", 1, <<"s2">>, "CO_OCCURRENCE"),
                         Rel("A", "C", 1, <<"s3">>, "CO_OCCURRENCE")>>]

InitDensity ==
    /\ inA \in QueryPayloads \cup {TrianglePayload}
    /\ inB = EmptyPayload
    /\ InitBuilder

SpecDensity == InitDensity /\ [][NextAnalytics]_vars

\* x equals |E| / (|V| (|V| - 1) / 2) if |V| >= 2, and 0 otherwise
IsContractDensity(g, x) ==
    LET V == Cardinality(NodeSet(g))
        E == Cardinality(EdgePairs(g))
    IN  /\ x.den > 0
        /\ IF V >= 2 THEN x.num * V * (V - 1) = 2 * E * x.den ELSE x.num = 0

\* the edges of g that have n as an endpoint
IncidentEdges(g, n) ==
    {i \in DOMAIN g.edges : g.edges[i].source = n \/ g.edges[i].target = n}

IsTriangleABC(g) ==
    /\ NodeSet(g) = {"A", "B", "C"}
    /\ Len(g.edges) = 3
    /\ has_edge(g, "A", "B") /\ has_edge(g, "B", "C") /\ has_edge(g, "A", "C")

IsPathABC(g) ==
    /\ NodeSet(g) = {"A", "B", "C"}
    /\ Len(g.edges) = 2
    /\ has_edge(g, "A", "B") /\ has_edge(g, "B", "C")

(* C21: the density build reports and the density computeAnalytics reports are
   |E| / (|V| (|V| - 1) / 2) for a graph of 2 or more nodes and 0 otherwise;
   the triangle on A, B, C has density 1, the path A-B-C has density 2/3 and
   its reported degrees are the counts of incident edges, A 1, B 2, C 1. *)
C21_DensityFormula ==
    /\ IsContractDensity(graph, result.density)
    /\ reply.op = "analytics" => IsContractDensity(reply.before, reply.out.density)
    /\ IsTriangleABC(graph) => result.density.num = result.density.den
    /\ IsPathABC(graph) =>
          /\ 3 * result.density.num = 2 * result.density.den
          /\ \A i \in DOMAIN result.nodes :
                /\ result.nodes[i].degree = Cardinality(IncidentEdges(graph, result.nodes[i].id))
                /\ result.nodes[i].degree = IF result.nodes[i].id = "B" THEN 2 ELSE 1

\* analytics of the built path A-B-C
C21_Witness ==
    /\ reply.op = "analytics"
    /\ IsPathABC(graph)
    /\ 3 * reply.out.density.num = 2 * reply.out.density.den
    /\ result.density = reply.out.density

-----------------------------------------------------------------------------
(* shortest_path on built graphs *)

\* the direct edge A-C is heavier than the way round through B
DetourPayload ==
    [entities |-> <<EntA, EntB, EntC>>,
     relationships |-> <<Rel("A", "C", 3, <<"s1">>, "CO_OCCURRENCE"),
                         Rel("A", "B", 1, <<"s2">>, "CO_OCCURRENCE"),
                         Rel("B", "C", 1, <<"s3">>, "TREATS")>>]

InitPath ==
    /\ inA \in QueryPayloads \cup {DetourPayload}
    /\ inB = EmptyPayload
    /\ InitBuilder

NextPath == BuildGraph \/ (Fresh /\ ShortestPath)

SpecPath == InitPath /\ [][NextPath]_vars

\* q lists nodes of g, each joined to the next by an edge of g
IsWalk(g, q) ==
    /\ Len(q) >= 1
    /\ \A i \in DOMAIN q : has_node(g, q[i])
    /\ \A i \in 1..(Len(q) - 1) : has_edge(g, q[i], q[i + 1])

\* the walks of g from s to t that visit no node twice
SimpleWalks(g, s, t) ==
    {q \in UNION {[1..k -> NodeSet(g)] : k \in 1..Len(g.nodes)} :
        /\ q[1] = s /\ q[Len(q)] = t
        /\ \A i, j \in DOMAIN q : i # j => q[i] # q[j]
        /\ IsWalk(g, q)}

WalkWeight(g, q) ==
    SumSeq([i \in 1..(Len(q) - 1) |-> EdgeOfPair(g, {q[i], q[i + 1]}).weight])

IsShortestPathReply == reply.op = "shortest_path"

Connected(g, s, t) == has_node(g, s) /\ has_node(g, t) /\ Dist(g, s, t) # Unreachable

(* C22: for source and target in the graph and connected, shortestPath returns
   one path that starts at source, ends at target and follows edges of the
   graph; the edges it reports are the ones traversed, the total weight is the
   sum of their weights, and no path from source to target weighs less. *)
C22_ShortestPathIsLightest ==
    (IsShortestPathReply /\ Connected(reply.before, reply.args.source, reply.args.target)) =>
        /\ Len(reply.out.paths) = 1
        /\ LET p == reply.out.paths[1]
               g == reply.before
           IN  /\ IsWalk(g, p.nodes)
               /\ p.nodes[1] = reply.args.source
               /\ p.nodes[Len(p.nodes)] = reply.args.target
               /\ Len(p.edges) = Len(p.nodes) - 1
               /\ \A i \in DOMAIN p.edges :
                     /\ p.edges[i].source = p.nodes[i]
                     /\ p.edges[i].target = p.nodes[i + 1]
                     /\ p.edges[i].weight = EdgeOfPair(g, {p.nodes[i], p.nodes[i + 1]}).weight
               /\ p.total_weight = SumSeq([i \in DOMAIN p.edges |-> p.edges[i].weight])
               /\ \A q \in SimpleWalks(g, reply.args.source, reply.args.target) :
                     p.total_weight <= WalkWeight(g, q)

\* the lightest path from A to C has more edges than the direct edge
C22_Witness ==
    /\ IsShortestPathReply
    /\ reply.args.source = "A" /\ reply.args.target = "C"
    /\ has_edge(reply.before, "A", "C")
    /\ Len(reply.out.paths) = 1
    /\ reply.out.paths[1].nodes = <<"A", "B", "C">>
    /\ reply.out.paths[1].total_weight = 2

(* C23: shortestPath returns the empty path list whenever source or target is
   not a node of the graph or the two lie in different connected components. *)
C23_NoPathIsEmptyList ==
    (IsShortestPathReply /\ ~Connected(reply.before, reply.args.source, reply.args.target)) =>
        reply.out = [paths |-> <<>>]

\* both endpoints are nodes with edges of their own, in different components
C23_Witness ==
    /\ IsShortestPathReply
    /\ reply.args.source = "A" /\ reply.args.target = "C"
    /\ Adj(reply.before, "A") # {} /\ Adj(reply.before, "C") # {}
    /\ Dist(reply.before, "A", "C") = Unreachable
    /\ reply.out.paths = <<>>

-----------------------------------------------------------------------------
(* subgraph, common_connections and get_neighbors in runs of queries *)

\* the listed centres that are nodes of g
PresentCentres(g, center_entities) == {c \in Range(center_entities) : has_node(g, c)}

\* the nodes of g within depth hops of a node of S
WithinHops(g, S, depth) ==
    {n \in NodeSet(g) :
        \E c \in S : Dist(g, c, n) # Unreachable /\ Dist(g, c, n) <= depth}

(* C24 as stated: subgraph(centerEntities, depth) returns exactly the nodes
   within depth hops of a centre that is in the graph, for any number of
   centres, and exactly the edges of the graph with both endpoints among
   them. *)
C24_SubgraphWithinDepth ==
    reply.op = "subgraph" =>
        LET g == reply.before
            within == WithinHops(g, PresentCentres(g, reply.args.center_entities),
                                 reply.args.depth)
        IN  /\ reply.out.nodes = within
            /\ reply.out.edges = {pr \in EdgePairs(g) : pr \subseteq within}

\* the nodes of g joined by an edge to every node of S
CommonNeighbours(g, S) ==
    {n \in NodeSet(g) : \A e \in S : has_edge(g, e, n)}

(* C25: commonConnections(entities, minDegree) returns the empty result when
   fewer than 2 of the given entities are in the graph; otherwise exactly the
   nodes that are neighbours of every given entity in the graph and have
   degree at least minDegree, each with its degree, by non-increasing degree;
   for A-B, B-C, entities [A, C] and minDegree 1 it is [B with degree 2]. *)
C25_CommonConnections ==
    reply.op = "common_connections" =>
        LET g == reply.before
            present == PresentCentres(g, reply.args.entities)
            common == reply.out.common
        IN  /\ Cardinality(present) < 2 => common = <<>>
            /\ Cardinality(present) >= 2 =>
                  /\ {common[i].entity : i \in DOMAIN common}
                        = {n \in CommonNeighbours(g, present) :
                              degree(g, n) >= reply.args.min_degree}
                  /\ \A i, j \in DOMAIN common : i # j => common[i].entity # common[j].entity
                  /\ \A i \in DOMAIN common : common[i].degree = degree(g, common[i].entity)
                  /\ \A i \in 1..(Len(common) - 1) : common[i].degree >= common[i + 1].degree
            /\ (IsPathABC(InducedOn(g, {"A", "B", "C"})) /\ Adj(g, "B") = {"A", "C"}
                  /\ reply.args.entities = <<"A", "C">> /\ reply.args.min_degree = 1)
                  => common = << [entity |-> "B", degree |-> 2] >>

\* two common neighbours of different degree come out, the higher first
C25_Witness ==
    /\ reply.op = "common_connections"
    /\ reply.args.entities = <<"C", "cancer">>
    /\ Len(reply.out.common) = 2
    /\ reply.out.common[1].degree > reply.out.common[2].degree

\* the targets of the edges of a layer
LayerTargets(layer) == {layer[k].target : k \in DOMAIN layer}

\* all edges of all layers, as (layer, position) pairs
LayerEdges(layers) == UNION {{<<i, k>> : k \in DOMAIN layers[i]} : i \in DOMAIN layers}

(* C26: neighbors(entity, depth) for an entity in the graph returns at most
   max(1, depth) layers; the start entity is never an edge target, every other
   node is the target of at most one edge over all layers, and a node is a
   target in layer i exactly when its hop distance from the start is i. *)
C26_LayersAreBfs ==
    (reply.op = "neighbors" /\ has_node(reply.before, reply.args.entity)) =>
        LET g == reply.before
            start == reply.args.entity
            rounds == Max(1, reply.args.depth)
            layers == reply.out.value
        IN  /\ reply.out.key = "layers"
            /\ Len(layers) <= rounds
            /\ \A i \in DOMAIN layers : start \notin LayerTargets(layers[i])
            /\ \A e1, e2 \in LayerEdges(layers) :
                  layers[e1[1]][e1[2]].target = layers[e2[1]][e2[2]].target => e1 = e2
            /\ \A i \in 1..rounds :
                  (IF i \in DOMAIN layers THEN LayerTargets(layers[i]) ELSE {})
                     = {n \in NodeSet(g) : Dist(g, start, n) = i}
            /\ \A i \in DOMAIN layers : \A k \in DOMAIN layers[i] :
                  has_edge(g, layers[i][k].source, layers[i][k].target)

\* two layers, the second with more than one edge, in a graph with a cycle
\* through the first layer's node
C26_Witness ==
    /\ reply.op = "neighbors"
    /\ reply.args.entity = "A"
    /\ reply.args.depth = 2
    /\ Len(reply.out.value) = 2
    /\ Len(reply.out.value[2]) = 3
    /\ has_edge(reply.before, "Gene", "cancer")

-----------------------------------------------------------------------------
(* GraphConversationalAgent._match_entities: names and queries are strings,
   kept here as sequences of one-character strings so that lower(), strip(),
   split() and the substring test are computed character by character. *)

LowerChar(c) == CASE c = "A" -> "a" [] c = "B" -> "b" [] OTHER -> c

\* str.lower()
StrLower(str) == [i \in DOMAIN str |-> LowerChar(str[i])]

RECURSIVE LStrip(_)
LStrip(str) == IF str # <<>> /\ Head(str) = " " THEN LStrip(Tail(str)) ELSE str

RECURSIVE RStrip(_)
RStrip(str) ==
    IF str # <<>> /\ str[Len(str)] = " " THEN RStrip(SubSeq(str, 1, Len(str) - 1)) ELSE str

\* str.strip()
Strip(str) == RStrip(LStrip(str))

\* x in y, for strings
Contains(y, x) == \E k \in 0..(Len(y) - Len(x)) : SubSeq(y, k + 1, k + Len(x)) = x

RECURSIVE SplitFrom(_, _, _)
\* str.split(): the maximal runs of characters that are not spaces; word is
\* the run being read
SplitFrom(str, i, word) ==
    IF i > Len(str) THEN (IF word = <<>> THEN {} ELSE {word})
    ELSE IF str[i] = " "
         THEN (IF word = <<>> THEN {} ELSE {word}) \cup SplitFrom(str, i + 1, <<>>)
         ELSE SplitFrom(str, i + 1, Append(word, str[i]))

\* set(str.split())
Words(str) == SplitFrom(str, 1, <<>>)

\* score > best_score, for exact quotients
Exceeds(x, y) == x.num * y.den > y.num * x.den

\* "if best_match", for None or a string
TruthyStr(m) == m # None /\ m[1] # <<>>

RECURSIVE ExactLoop(_, _, _)
\* the first node whose lower() is the query, or None
ExactLoop(graph_nodes, i, query_lower) ==
    IF i > Len(graph_nodes) THEN None
    ELSE IF StrLower(graph_nodes[i]) = query_lower THEN Some(graph_nodes[i])
    ELSE ExactLoop(graph_nodes, i + 1, query_lower)

\* best_score, best_match after a score has been compared
Better(best, score, node) ==
    IF Exceeds(score, best.best_score)
    THEN [best_score |-> score, best_match |-> Some(node)]
    ELSE best

RECURSIVE SubstringLoop(_, _, _, _)
SubstringLoop(graph_nodes, i, query_lower, best) ==
    IF i > Len(graph_nodes) THEN best
    ELSE LET node == graph_nodes[i]
             node_lower == StrLower(node)
         IN  SubstringLoop(graph_nodes, i + 1, query_lower,
                IF Contains(node_lower, query_lower)
                THEN Better(best, Frac(Len(query_lower), Len(node_lower)), node)
                ELSE IF Contains(query_lower, node_lower)
                THEN Better(best, Frac(Len(node_lower), Len(query_lower)), node)
                ELSE best)

RECURSIVE OverlapLoop(_, _, _, _)
OverlapLoop(graph_nodes, i, query_words, best) ==
    IF i > Len(graph_nodes) THEN best
    ELSE LET node == graph_nodes[i]
             node_words == Words(StrLower(node))
             overlap == query_words \cap node_words
         IN  OverlapLoop(graph_nodes, i + 1, query_words,
                IF overlap # {}
                THEN Better(best,
                            Frac(Cardinality(overlap),
                                 Max(Cardinality(query_words), Cardinality(node_words))),
                            node)
                ELSE best)

\* 0.3, in tenths
MatchThresholdTenths == 3

\* mutant: a score of exactly 0.3 is accepted
Accepted_atleast(best) ==
    TruthyStr(best.best_match)
        /\ 10 * best.best_score.num >= MatchThresholdTenths * best.best_score.den

\* if best_match and best_score > 0.3
Accepted(best) ==
    TruthyStr(best.best_match)
        /\ 10 * best.best_score.num > MatchThresholdTenths * best.best_score.den

\* what one query entity adds to matched
MatchOne(graph_nodes, query_entity) ==
    LET query_lower == Strip(StrLower(query_entity))
        exact == ExactLoop(graph_nodes, 1, query_lower)
        sub   == SubstringLoop(graph_nodes, 1, query_lower,
                               [best_score |-> Frac(0, 1), best_match |-> None])
        best  == IF ~TruthyStr(sub.best_match)
                 THEN OverlapLoop(graph_nodes, 1, Words(query_lower), sub)
                 ELSE sub
    IN  IF exact # None THEN exact
        ELSE IF Accepted(best) THEN best.best_match
        ELSE None

_match_entities(g, query_entities) ==
    Flatten([k \in DOMAIN query_entities |->
                MatchOne([i \in DOMAIN g.nodes |-> g.nodes[i].id], query_entities[k])])

-----------------------------------------------------------------------------
(* Entity names resolved against built graphs *)

MaxQueryLen == 3

MaxNodes == 2

QueryChars == {"a", "b", "A", " "}

\* node names: "ab", "AB", "abab", "a b", "a c d e", "b", and ten a's
NodeNames ==
    { <<"a", "b">>, <<"A", "B">>, <<"a", "b", "a", "b">>, <<"a", " ", "b">>,
      <<"a", " ", "c", " ", "d", " ", "e">>, <<"b">>,
      <<"a", "a", "a", "a", "a", "a", "a", "a", "a", "a">> }

NameEntity(name) ==
    [key |-> name, original_name |-> name, type |-> "CHEMICAL", count |-> 1]

MatchPayloads ==
    {[entities |-> [i \in DOMAIN names |-> NameEntity(names[i])], relationships |-> <<>>] :
        names \in {ns \in SeqsUpTo(NodeNames, MaxNodes) :
                      \A i, j \in DOMAIN ns : i # j => ns[i] # ns[j]}}

Queries == SeqsUpTo(QueryChars, MaxQueryLen)

InitMatch ==
    /\ inA \in MatchPayloads
    /\ inB = EmptyPayload
    /\ InitBuilder

\* agent._match_entities([query])
MatchEntities ==
    \E query \in Queries :
        /\ reply' = [op |-> "match", args |-> [query |-> query],
                     out |-> _match_entities(graph, <<query>>),
                     before |-> graph, shrunk |-> ShrunkBefore]
        /\ graph' = graph
        /\ QueryFrame

NextMatch == BuildGraph \/ (Fresh /\ MatchEntities)

SpecMatch == InitMatch /\ [][NextMatch]_vars

\* the node ids of the graph a match was asked on
MatchNodes == {reply.before.nodes[i].id : i \in DOMAIN reply.before.nodes}

\* the query as it is compared: lower-cased, outer spaces removed
MatchQuery == Strip(StrLower(reply.args.query))

ExactNodes == {n \in MatchNodes : StrLower(n) = MatchQuery}

SubstringNodes ==
    {n \in MatchNodes : Contains(StrLower(n), MatchQuery) \/ Contains(MatchQuery, StrLower(n))}

\* len(shorter) / len(longer)
ContainmentScore(n) ==
    IF Len(n) <= Len(MatchQuery) THEN Frac(Len(n), Len(MatchQuery))
    ELSE Frac(Len(MatchQuery), Len(n))

OverlapNodes == {n \in MatchNodes : Words(StrLower(n)) \cap Words(MatchQuery) # {}}

\* |intersection| / max(|queryTokens|, |nodeTokens|)
OverlapScore(n) ==
    Frac(Cardinality(Words(StrLower(n)) \cap Words(MatchQuery)),
         Max(Cardinality(Words(StrLower(n))), Cardinality(Words(MatchQuery))))

\* the reply is the best of the candidates C under score if that score exceeds
\* 0.3, and no match otherwise
IsBestAbove(C, score(_)) ==
    LET top == {n \in C : \A m \in C : ~Exceeds(score(m), score(n))}
    IN  IF \E n \in top : 10 * score(n).num > 3 * score(n).den
        THEN \E n \in top : reply.out = <<n>>
        ELSE reply.out = <<>>

(* C27: resolveEntityName returns only node ids of the graph.  If some node
   equals the query case-insensitively such a node is returned; otherwise the
   node with the highest substring-containment score len(shorter)/len(longer)
   among the nodes that contain or are contained in the query; otherwise, with
   no substring candidate, the node with the highest token-overlap score
   |intersection| / max(|queryTokens|, |nodeTokens|); a match that is not
   exact is returned only if its score exceeds 0.3, else there is no match. *)
C27_ResolveEntityName ==
    reply.op = "match" =>
        /\ \A i \in DOMAIN reply.out : reply.out[i] \in MatchNodes
        /\ Len(reply.out) <= 1
        /\ IF ExactNodes # {} THEN \E n \in ExactNodes : reply.out = <<n>>
           ELSE IF SubstringNodes # {} THEN IsBestAbove(SubstringNodes, ContainmentScore)
           ELSE IsBestAbove(OverlapNodes, OverlapScore)

\* no exact and no substring candidate: the match comes from the shared token
C27_Witness ==
    /\ reply.op = "match"
    /\ ExactNodes = {} /\ SubstringNodes = {}
    /\ reply.out = << <<"a", " ", "b">> >>

-----------------------------------------------------------------------------
(* The focus of hypothesis generation *)

\* the pairs of neighbours of b that no edge joins
OpenPairsVia(g, b) ==
    {{a, c} : a, c \in Adj(g, b)} \cap {pr \in SUBSET NodeSet(g) :
                                           Cardinality(pr) = 2 /\ pr \notin EdgePairs(g)}

OpenPairs(g) == UNION {OpenPairsVia(g, b) : b \in NodeSet(g)}

FocusInGraph ==
    /\ reply.args.focus # None
    /\ has_node(reply.before, reply.args.focus[1])

\* the end points of the triadic hypotheses returned
TriadicPairs == {{Hypotheses[i].entities[1], Hypotheses[i].entities[3]} :
                    i \in {j \in DOMAIN Hypotheses : IsTriadic(Hypotheses[j])}}

\* the triadic hypotheses are one for each pair of S, as many as the triadic
\* share and maxResults allow
TriadicCover(S) ==
    LET m == reply.args.max_results
        nt == Len(TriadicOf(Hypotheses))
    IN  /\ TriadicPairs \subseteq S
        /\ Cardinality(TriadicPairs) = nt
        /\ nt = Min(Min(TriadicShare(m), m), Cardinality(S))

(* C28: when generate is given a focus that is a node of the graph, every
   triadic hypothesis it returns has the focus as its intermediate node; when
   the focus is absent from the graph or not given, the triadic search takes
   every node of the graph as intermediate node. *)
C28_FocusIsIntermediate ==
    reply.op = "generate" =>
        IF FocusInGraph
        THEN /\ \A i \in DOMAIN Hypotheses :
                    IsTriadic(Hypotheses[i]) => Hypotheses[i].entities[2] = reply.args.focus[1]
             /\ TriadicCover(OpenPairsVia(reply.before, reply.args.focus[1]))
        ELSE TriadicCover(OpenPairs(reply.before))

\* the focus has one open pair of neighbours and the graph has others that do
\* not pass through it
C28_Witness ==
    /\ reply.op = "generate"
    /\ FocusInGraph
    /\ Len(TriadicOf(Hypotheses)) = 1
    /\ reply.args.max_results >= 3
    /\ Cardinality(OpenPairs(reply.before)) > 1

-----------------------------------------------------------------------------
(* Degrees reported by filter_graph *)

(* C29 as stated: every node in the graph returned by filter(minDegree,
   allowedTypes, topN) has a reported degree, its degree within the returned
   graph, of at least minDegree. *)
C29_ReportedDegreeAtLeastMin ==
    reply.op = "filter" =>
        \A i \in DOMAIN reply.out.nodes :
            reply.out.nodes[i].degree >= reply.args.min_degree

(* C29: every node in the graph returned by filter(minDegree, allowedTypes,
   topN) had degree at least minDegree in the graph before filtering; its
   reported degree is its degree within the returned graph, which is never
   higher than that. *)
C29_KeptHadMinDegree ==
    reply.op = "filter" =>
        LET kept == {reply.out.nodes[i].id : i \in DOMAIN reply.out.nodes}
        IN  \A i \in DOMAIN reply.out.nodes :
                LET n == reply.out.nodes[i]
                IN  /\ degree(reply.before, n.id) >= reply.args.min_degree
                    /\ n.degree = degree(InducedOn(reply.before, kept), n.id)
                    /\ n.degree <= degree(reply.before, n.id)

\* a kept node lost its neighbours to the degree pass and is reported with a
\* degree below minDegree
C29_Witness ==
    /\ reply.op = "filter"
    /\ reply.args.min_degree = 2
    /\ reply.args.entity_types = None /\ reply.args.top_n = None
    /\ \E i \in DOMAIN reply.out.nodes :
          /\ reply.out.nodes[i].degree < 2
          /\ degree(reply.before, reply.out.nodes[i].id) >= 2

-----------------------------------------------------------------------------
(* The /api/graph/filter and /api/analytics handlers on the asyncio event
   loop, next to /api/chat requests.  Every handler is a coroutine on the one
   loop; the loop takes up another request only where the running one awaits.
   Request r1 carries inA, request r2 carries inB, and all of them use the
   module-level graph_builder. *)

HandlerPayloads ==
    { [entities |-> <<Ent("a", "a", 1), Ent("b", "b", 1)>>,
       relationships |-> <<Rel("a", "b", 1, <<"s1">>, "CO_OCCURRENCE")>>],
      [entities |-> <<Ent("a", "a", 1), Ent("b", "b", 1), Ent("c", "c", 1)>>,
       relationships |-> <<Rel("a", "b", 1, <<"s1">>, "CO_OCCURRENCE"),
                           Rel("b", "c", 2, <<"s2">>, "TREATS")>>],
      [entities |-> <<Ent("b", "b", 1), Ent("c", "c", 1)>>,
       relationships |-> <<>>] }

InitHandlers ==
    /\ inA \in HandlerPayloads
    /\ inB \in HandlerPayloads
    /\ InitBuilder

\* mutant: the handler awaits between build_graph and the read
NoAwaitAfterBuild_await == FALSE

\* main.py 474-475 and 507-508: build_graph and the read that follows are
\* plain calls with no await between them
NoAwaitAfterBuild == TRUE

\* the requests that are between their build_graph call and their read
AfterBuild == {r \in Requests : pc[r] \in {"filter_built", "analytics_built"}}

\* the event loop can run a step of request r
LoopFree(r) == NoAwaitAfterBuild => AfterBuild \subseteq {r}

\* main.py 474: graph_builder.build_graph(entities, relationships)
FilterHandlerBuild(r) ==
    /\ ChatBuild(r)
    /\ pc' = [pc EXCEPT ![r] = "filter_built"]
    /\ UNCHANGED readGraph

\* main.py 475: graph_builder.filter_graph(min_degree, entity_types, top_n)
FilterHandlerRead(r) ==
    /\ pc[r] = "filter_built"
    /\ \E min_degree \in 0..MaxMinDegree, top_n \in {None, Some(1)} :
          LET f == filter_graph(graph, min_degree, None, top_n)
          IN  /\ graph' = f.graph
              /\ reply' = [op |-> "filter",
                           args |-> [req |-> r, min_degree |-> min_degree,
                                     entity_types |-> None, top_n |-> top_n],
                           out |-> f.data, before |-> graph,
                           shrunk |-> Len(f.data.nodes) < Len(graph.nodes)]
    /\ RunQuery(r, graph)
    /\ pc' = [pc EXCEPT ![r] = "replied"]
    /\ UNCHANGED <<inA, inB, result, call, chain>>

\* main.py 507: graph_builder.build_graph(entities, relationships)
AnalyticsHandlerBuild(r) ==
    /\ ChatBuild(r)
    /\ pc' = [pc EXCEPT ![r] = "analytics_built"]
    /\ UNCHANGED readGraph

\* main.py 508: graph_builder.compute_analytics()
AnalyticsHandlerRead(r) ==
    /\ pc[r] = "analytics_built"
    /\ \E a \in {compute_analytics(graph, <<>>)} :
          \E P \in LouvainOutcomes(graph) :
              reply' = [op |-> "analytics", args |-> [req |-> r],
                        out |-> [a EXCEPT !.communities = _detect_communities(graph, P)],
                        before |-> graph, shrunk |-> FALSE]
    /\ RunQuery(r, graph)
    /\ pc' = [pc EXCEPT ![r] = "replied"]
    /\ UNCHANGED <<inA, inB, graph, result, call, chain>>

NextHandlers ==
    \E r \in Requests :
        \/ LoopFree(r) /\ FilterHandlerBuild(r)
        \/ LoopFree(r) /\ FilterHandlerRead(r)
        \/ LoopFree(r) /\ AnalyticsHandlerBuild(r)
        \/ LoopFree(r) /\ AnalyticsHandlerRead(r)
        \/ LoopFree(r) /\ ChatAskLLM(r)
        \/ LoopFree(r) /\ ChatToolCall(r)
        \/ LoopFree(r) /\ ChatDirect(r)

SpecHandlers == InitHandlers /\ [][NextHandlers]_vars

IsHandlerReply == reply.op \in {"filter", "analytics"}

(* C30: in the /api/analytics and /api/graph/filter handlers no other
   request's build runs between the handler's build_graph call and its
   compute_analytics or filter_graph call, so under any interleaving of
   requests the analytics or filtered graph returned are those of the graph
   of the request's own payload. *)
C30_HandlerReadsOwnGraph ==
    /\ \A r \in AfterBuild : graph = OwnGraph(r)
    /\ IsHandlerReply =>
          LET own == OwnGraph(reply.args.req)
          IN  /\ reply.before = own
              /\ readGraph[reply.args.req] = own
              /\ reply.op = "filter" =>
                    reply.out = filter_graph(own, reply.args.min_degree,
                                             reply.args.entity_types, reply.args.top_n).data
              /\ reply.op = "analytics" =>
                    [reply.out EXCEPT !.communities = <<>>] = compute_analytics(own, <<>>)

\* a chat request with another payload built the shared graph and is awaiting
\* the LLM while the filter handler of the other request has run
C30_Witness ==
    /\ reply.op = "filter"
    /\ reply.args.req = "r1"
    /\ pc["r2"] = "await_llm"
    /\ call.op = "build" /\ call.new = inA /\ call.before = OwnGraph("r2")
    /\ OwnGraph("r1") # OwnGraph("r2")
    /\ reply.out.nodes # <<>>

====
